---------------------------- MODULE Spec2Model ----------------------------
(***************************************************************************)
(* A model of the generation core of myapp: parameter injection into a     *)
(* ComfyUI workflow (services.update_workflow), dependency tracing         *)
(* (services.find_dependencies), GPU selection                             *)
(* (services.get_active_comfyui_address and its video twin) and the        *)
(* websocket-driven generation calls (services.generate_image_from_        *)
(* character, video_services.generate_video_task).                         *)
(*                                                                         *)
(* Python str values are sequences of one-character strings, so that       *)
(* lower(), upper(), "in", rstrip() and replace() are computed and not     *)
(* assumed.  dict keys (input field names, parameter names, node ids) are  *)
(* only ever compared for equality and are TLA+ strings.                   *)
(***************************************************************************)
EXTENDS Integers, Sequences, FiniteSets, TLC

VARIABLES
    workflow_file,  \* the template graph stored in base_workflow.json_file
    objects,        \* the graphs in memory, by the identity of the dict object
    req,            \* per request of generate_image_from_character: its locals
    sel,            \* one call of get_active_[video_]comfyui_address
    orch,           \* one generation call from websockets.connect on
    fd              \* one call of find_dependencies

vars == <<workflow_file, objects, req, sel, orch, fd>>

(***************************************************************************)
(* Python str                                                              *)
(***************************************************************************)
UpperChars == <<"A", "B", "C", "D", "E", "F", "G", "H", "I", "J", "K", "L", "M", "N", "O", "P", "Q", "R", "S", "T", "U", "V", "W", "X", "Y", "Z">>
LowerChars == <<"a", "b", "c", "d", "e", "f", "g", "h", "i", "j", "k", "l", "m", "n", "o", "p", "q", "r", "s", "t", "u", "v", "w", "x", "y", "z">>
DigitChars == <<"0", "1", "2", "3", "4", "5", "6", "7", "8", "9">>

IndexIn(c, table) == IF \E i \in DOMAIN table : table[i] = c
                     THEN CHOOSE i \in DOMAIN table : table[i] = c
                     ELSE 0

\* str.lower() and str.upper() on ASCII text
UpperSet == {UpperChars[i] : i \in DOMAIN UpperChars}
LowerSet == {LowerChars[i] : i \in DOMAIN LowerChars}
to_lower == [c \in UpperSet |-> LowerChars[IndexIn(c, UpperChars)]]
to_upper == [c \in LowerSet |-> UpperChars[IndexIn(c, LowerChars)]]

lower(s) == [i \in DOMAIN s |-> IF s[i] \in UpperSet THEN to_lower[s[i]] ELSE s[i]]
upper(s) == [i \in DOMAIN s |-> IF s[i] \in LowerSet THEN to_upper[s[i]] ELSE s[i]]

\* sub in s
Contains(s, sub) == \E i \in 0..(Len(s) - Len(sub)) : \A j \in DOMAIN sub : s[i + j] = sub[j]

\* literals of services.py
s_positive == <<"p", "o", "s", "i", "t", "i", "v", "e">>
s_negative == <<"n", "e", "g", "a", "t", "i", "v", "e">>
s_sampler == <<"s", "a", "m", "p", "l", "e", "r">>
s_None == <<"N", "o", "n", "e">>
T_BLACK_LIST_TAGS == <<"B", "L", "A", "C", "K", "_", "L", "I", "S", "T", "_", "T", "A", "G", "S">>
T_PROMP_DETAILERS == <<"P", "R", "O", "M", "P", "_", "D", "E", "T", "A", "I", "L", "E", "R", "S">>
T_NEGATIVE_PROMP == <<"N", "E", "G", "A", "T", "I", "V", "E", " ", "P", "R", "O", "M", "P">>
T_PROMP_CHARACTER == <<"P", "R", "O", "M", "P", "_", "C", "H", "A", "R", "A", "C", "T", "E", "R">>
T_PROMP_USUARIO == <<"P", "R", "O", "M", "P", "_", "U", "S", "U", "A", "R", "I", "O">>
T_AUTO_GENERATED_WHITELIST == <<"A", "U", "T", "O", "_", "G", "E", "N", "E", "R", "A", "T", "E", "D", "_", "W", "H", "I", "T", "E", "L", "I", "S", "T">>
K_DW_Ultimate_Blacklist_Filter == <<"D", "W", "_", "U", "l", "t", "i", "m", "a", "t", "e", "_", "B", "l", "a", "c", "k", "l", "i", "s", "t", "_", "F", "i", "l", "t", "e", "r">>
K_DW_Text == <<"D", "W", "_", "T", "e", "x", "t">>
K_DW_LoRAStackApplySimple == <<"D", "W", "_", "L", "o", "R", "A", "S", "t", "a", "c", "k", "A", "p", "p", "l", "y", "S", "i", "m", "p", "l", "e">>
K_CheckpointLoaderSimple == <<"C", "h", "e", "c", "k", "p", "o", "i", "n", "t", "L", "o", "a", "d", "e", "r", "S", "i", "m", "p", "l", "e">>
K_VAELoader == <<"V", "A", "E", "L", "o", "a", "d", "e", "r">>
K_DW_resolution == <<"D", "W", "_", "r", "e", "s", "o", "l", "u", "t", "i", "o", "n">>
K_EmptyLatentImage == <<"E", "m", "p", "t", "y", "L", "a", "t", "e", "n", "t", "I", "m", "a", "g", "e">>
K_DW_seed == <<"D", "W", "_", "s", "e", "e", "d">>

(***************************************************************************)
(* JSON values.  A Reference is the Python list [source_node_id, slot];    *)
(* every other value that occurs is a scalar.  Floats are held in tenths.  *)
(***************************************************************************)
StrV(s) == [kind |-> "str", v |-> s]
IntV(n) == [kind |-> "int", v |-> n]
FloatV(t) == [kind |-> "float", v |-> t]
BoolV(b) == [kind |-> "bool", v |-> b]
NoneV == [kind |-> "none"]
Ref(id, slot) == [kind |-> "list", id |-> id, slot |-> slot]
\* the same with an int for the node id, as older exports write it
RefNum(num, slot) == [kind |-> "list", num |-> num, slot |-> slot]

\* isinstance(x, list)
IsList(x) == x.kind = "list"

\* not x
Falsy(x) == \/ x.kind = "none"
            \/ x.kind = "bool" /\ ~x.v
            \/ x.kind \in {"int", "float"} /\ x.v = 0
            \/ x.kind = "str" /\ x.v = <<>>

\* d[k] = v on a dict
SetItem(d, k, v) == [x \in DOMAIN d \cup {k} |-> IF x = k THEN v ELSE d[x]]

EmptyDict == [x \in {} |-> NoneV]

(***************************************************************************)
(* int(x) and float(x): ok is FALSE where Python raises ValueError or      *)
(* TypeError.                                                              *)
(***************************************************************************)
RECURSIVE DigitsValue(_)
DigitsValue(s) == IF s = <<>> THEN 0
                  ELSE 10 * DigitsValue(SubSeq(s, 1, Len(s) - 1)) + (IndexIn(s[Len(s)], DigitChars) - 1)

AllDigits(s) == s # <<>> /\ \A i \in DOMAIN s : IndexIn(s[i], DigitChars) > 0

RECURSIVE strip(_)
strip(s) == IF s # <<>> /\ s[1] = " " THEN strip(Tail(s))
            ELSE IF s # <<>> /\ s[Len(s)] = " " THEN strip(SubSeq(s, 1, Len(s) - 1))
            ELSE s

ParseInt(s0) ==
    LET s == strip(s0)
        signed == s # <<>> /\ s[1] \in {"-", "+"}
        body == IF signed THEN Tail(s) ELSE s
    IN  IF AllDigits(body)
        THEN [ok |-> TRUE, v |-> IF signed /\ s[1] = "-" THEN 0 - DigitsValue(body) ELSE DigitsValue(body)]
        ELSE [ok |-> FALSE, v |-> 0]

\* the part of s before the first "." and the part after it
DotAt(s) == IF \E i \in DOMAIN s : s[i] = "." THEN CHOOSE i \in DOMAIN s : s[i] = "." /\ \A j \in 1..(i - 1) : s[j] # "." ELSE 0

ParseFloat(s0) ==
    LET s == strip(s0)
        signed == s # <<>> /\ s[1] \in {"-", "+"}
        body == IF signed THEN Tail(s) ELSE s
        d == DotAt(body)
        whole == IF d = 0 THEN body ELSE SubSeq(body, 1, d - 1)
        frac == IF d = 0 THEN <<>> ELSE SubSeq(body, d + 1, Len(body))
        wellformed == /\ whole # <<>> \/ frac # <<>>
                      /\ whole = <<>> \/ AllDigits(whole)
                      /\ frac = <<>> \/ AllDigits(frac)
        tenths == 10 * DigitsValue(whole) + (IF frac = <<>> THEN 0 ELSE IndexIn(frac[1], DigitChars) - 1)
    IN  IF wellformed
        THEN [ok |-> TRUE, v |-> IF signed /\ s[1] = "-" THEN 0 - tenths ELSE tenths]
        ELSE [ok |-> FALSE, v |-> 0]

Trunc10(t) == IF t >= 0 THEN t \div 10 ELSE 0 - ((0 - t) \div 10)

int(x) == CASE x.kind = "int" -> [ok |-> TRUE, v |-> x.v]
            [] x.kind = "bool" -> [ok |-> TRUE, v |-> IF x.v THEN 1 ELSE 0]
            [] x.kind = "float" -> [ok |-> TRUE, v |-> Trunc10(x.v)]
            [] x.kind = "str" -> ParseInt(x.v)
            [] OTHER -> [ok |-> FALSE, v |-> 0]

float(x) == CASE x.kind = "int" -> [ok |-> TRUE, v |-> 10 * x.v]
              [] x.kind = "bool" -> [ok |-> TRUE, v |-> IF x.v THEN 10 ELSE 0]
              [] x.kind = "float" -> [ok |-> TRUE, v |-> x.v]
              [] x.kind = "str" -> ParseFloat(x.v)
              [] OTHER -> [ok |-> FALSE, v |-> 0]


(***************************************************************************)
(* services.update_workflow, API format: a graph is a dict node_id ->      *)
(* node, a node is [class_type, title, inputs, widgets_values] where       *)
(* title is _meta.title ("" when absent) and widgets_values is [] when     *)
(* absent.                                                                 *)
(***************************************************************************)
\* statement sequencing: e is evaluated once and its value is what F sees,
\* as an assignment x = e followed by the statements F(x)
Then(e, F(_)) == CHOOSE r \in {F(x) : x \in {e}} : TRUE

dummy_whitelist_id == "99999"

dummy_whitelist_node == [class_type |-> K_DW_Text, title |-> T_AUTO_GENERATED_WHITELIST,
                         inputs |-> [x \in {"text"} |-> StrV(<<>>)], widgets_values |-> <<>>]

candidates == <<"text", "text_g", "text_l", "prompt", "value">>

LoraSlots == 6
lora_name_key == <<"lora_1_name", "lora_2_name", "lora_3_name", "lora_4_name", "lora_5_name", "lora_6_name", "lora_7_name">>
lora_strength_key == <<"lora_1_strength", "lora_2_strength", "lora_3_strength", "lora_4_strength", "lora_5_strength", "lora_6_strength", "lora_7_strength">>

Min2(a, b) == IF a <= b THEN a ELSE b

\* the title phase with two independent tests instead of if/elif
title_roles_both(node) ==
    LET title == lower(node.title)
    IN  (IF Contains(title, s_positive) THEN {"positive"} ELSE {})
        \cup (IF Contains(title, s_negative) THEN {"negative"} ELSE {})

\* lines 337-343: the roles the title phase gives a node
title_roles(node) ==
    LET title == lower(node.title)
    IN  IF Contains(title, s_positive) THEN {"positive"}
        ELSE IF Contains(title, s_negative) THEN {"negative"}
        ELSE {}

\* lines 333-343: the title phase
positive_nodes(wf) == {id \in DOMAIN wf : "positive" \in title_roles(wf[id])}
negative_nodes(wf) == {id \in DOMAIN wf : "negative" \in title_roles(wf[id])}

\* update_text writing the widget value only
update_text_widgets(node, val) ==
    IF node.widgets_values # <<>> THEN [node EXCEPT !.widgets_values[1] = val] ELSE node

\* lines 371-384: the first candidate field that is present and holds no list
update_text(node, val) ==
    LET hit == {i \in DOMAIN candidates : /\ candidates[i] \in DOMAIN node.inputs
                                          /\ ~IsList(node.inputs[candidates[i]])}
    IN  IF hit # {}
        THEN LET k == candidates[CHOOSE i \in hit : \A j \in hit : i <= j]
             IN  [node EXCEPT !.inputs[k] = val]
        ELSE IF node.widgets_values # <<>>
             THEN [node EXCEPT !.widgets_values[1] = val]
             ELSE node

\* a filter left as the template has it
whitelist_not_connected(node) == node

\* lines 364-367
connect_whitelist(node) ==
    IF node.class_type = K_DW_Ultimate_Blacklist_Filter /\ "WHITELIST" \notin DOMAIN node.inputs
    THEN [node EXCEPT !.inputs = SetItem(node.inputs, "WHITELIST", Ref(dummy_whitelist_id, 0))]
    ELSE node

\* lines 388-411: the i-th of the seven prompt updates of one node, in the
\* order of the code
prompt_update(i, node_id, node, pos, neg, new_values) ==
    LET has(k) == k \in DOMAIN new_values
        titled(t) == upper(node.title) = t
    IN  CASE i = 1 -> IF node_id \in pos /\ has("prompt") THEN update_text(node, new_values["prompt"]) ELSE node
          [] i = 2 -> IF node_id \in neg /\ has("negative_prompt") THEN update_text(node, new_values["negative_prompt"]) ELSE node
          [] i = 3 -> IF titled(T_BLACK_LIST_TAGS)
                      THEN IF has("enable_blacklist") /\ Falsy(new_values["enable_blacklist"])
                           THEN update_text(node, StrV(<<>>))
                           ELSE IF has("black_list_tags") THEN update_text(node, new_values["black_list_tags"]) ELSE node
                      ELSE node
          [] i = 4 -> IF titled(T_PROMP_DETAILERS) /\ has("promp_detailers") THEN update_text(node, new_values["promp_detailers"]) ELSE node
          [] i = 5 -> IF titled(T_NEGATIVE_PROMP) /\ has("negative_prompt") THEN update_text(node, new_values["negative_prompt"]) ELSE node
          [] i = 6 -> IF titled(T_PROMP_CHARACTER) /\ has("promp_character") THEN update_text(node, new_values["promp_character"]) ELSE node
          [] OTHER -> IF titled(T_PROMP_USUARIO) /\ has("prompt") THEN update_text(node, new_values["prompt"]) ELSE node

RECURSIVE update_prompts_from(_, _, _, _, _, _)
update_prompts_from(i, node_id, node, pos, neg, new_values) ==
    IF i > 7 THEN node
    ELSE Then(prompt_update(i, node_id, node, pos, neg, new_values),
              LAMBDA n : update_prompts_from(i + 1, node_id, n, pos, neg, new_values))

update_prompts(node_id, node, pos, neg, new_values) == update_prompts_from(1, node_id, node, pos, neg, new_values)

\* the six slots of a LoRA stack without the reset of lines 415-416: a slot
\* the list does not reach keeps what the template held
lora_slots_not_cleared(inputs, lora_names, lora_strengths) ==
    LET n == Min2(Len(lora_names), LoraSlots)
        strength(i) == IF float(lora_strengths[i]).ok THEN FloatV(float(lora_strengths[i]).v) ELSE FloatV(10)
        keys == {lora_name_key[i] : i \in 1..n} \cup {lora_strength_key[i] : i \in 1..n}
        slot(x) == CHOOSE i \in 1..LoraSlots : x \in {lora_name_key[i], lora_strength_key[i]}
    IN  [x \in DOMAIN inputs \cup keys |->
           IF x \notin keys THEN inputs[x]
           ELSE IF x = lora_name_key[slot(x)] THEN lora_names[slot(x)]
           ELSE IF slot(x) <= Len(lora_strengths) THEN strength(slot(x))
           ELSE FloatV(10)]

\* lines 415-423, and video_services.py lines 321-333 and 361-373: every slot
\* is set to "None" and 1.0, then the first six names are written with their
\* strengths; a strength that is missing or no number leaves 1.0
lora_slots(inputs, lora_names, lora_strengths) ==
    LET n == Min2(Len(lora_names), LoraSlots)
        strength(i) == IF float(lora_strengths[i]).ok THEN FloatV(float(lora_strengths[i]).v) ELSE FloatV(10)
        keys == {lora_name_key[i] : i \in 1..LoraSlots} \cup {lora_strength_key[i] : i \in 1..LoraSlots}
        slot(x) == CHOOSE i \in 1..LoraSlots : x \in {lora_name_key[i], lora_strength_key[i]}
        isname(x) == x = lora_name_key[slot(x)]
    IN  [x \in DOMAIN inputs \cup keys |->
           IF x \notin keys THEN inputs[x]
           ELSE IF isname(x) THEN (IF slot(x) <= n THEN lora_names[slot(x)] ELSE StrV(s_None))
           ELSE IF slot(x) <= n /\ slot(x) <= Len(lora_strengths) THEN strength(slot(x))
           ELSE FloatV(10)]

\* lines 413-423
update_loras(node, lora_names, lora_strengths) ==
    IF node.class_type # K_DW_LoRAStackApplySimple THEN node
    ELSE [node EXCEPT !.inputs = lora_slots(@, lora_names, lora_strengths)]

\* lines 425-470: the if/elif chain on class_type; raised is the KeyError of
\* new_values["height"] on line 458, which no except clause catches
update_models(node, new_values) ==
    LET has(k) == k \in DOMAIN new_values
        ct == node.class_type
        same == [raised |-> FALSE, node |-> node]
        put(nd, k, v) == [nd EXCEPT !.inputs = SetItem(nd.inputs, k, v)]
    IN  IF ct = K_CheckpointLoaderSimple /\ has("checkpoint")
        THEN [raised |-> FALSE, node |-> put(node, "ckpt_name", new_values["checkpoint"])]
        ELSE IF ct = K_VAELoader /\ has("vae") /\ new_values["vae"] # StrV(s_None)
        THEN [raised |-> FALSE, node |-> put(node, "vae_name", new_values["vae"])]
        ELSE IF ct = K_DW_resolution
        THEN LET w == IF has("width") THEN int(new_values["width"]) ELSE [ok |-> FALSE, v |-> 0]
                 h == IF has("height") THEN int(new_values["height"]) ELSE [ok |-> FALSE, v |-> 0]
                 up == IF has("upscale_by") THEN float(new_values["upscale_by"]) ELSE [ok |-> FALSE, v |-> 0]
                 a == IF w.ok THEN put(node, "WIDTH", IntV(w.v)) ELSE node
                 b == IF h.ok THEN put(a, "HEIGHT", IntV(h.v)) ELSE a
             IN  [raised |-> FALSE, node |-> IF up.ok THEN put(b, "UPSCALER", FloatV(up.v)) ELSE b]
        ELSE IF ct = K_EmptyLatentImage /\ has("width")
        THEN IF ~int(new_values["width"]).ok THEN same
             ELSE IF ~has("height") THEN [raised |-> TRUE, node |-> node]
             ELSE IF ~int(new_values["height"]).ok THEN same
             ELSE [raised |-> FALSE,
                   node |-> put(put(node, "width", IntV(int(new_values["width"]).v)),
                                "height", IntV(int(new_values["height"]).v))]
        ELSE IF ct = K_DW_seed /\ has("seed")
        THEN IF int(new_values["seed"]).ok
             THEN [raised |-> FALSE, node |-> put(node, "seed", IntV(int(new_values["seed"]).v))]
             ELSE same
        ELSE same

\* lines 472-475
update_sampler_seed(node, new_values) ==
    IF /\ Contains(lower(node.class_type), s_sampler)
       /\ "seed" \in DOMAIN new_values
       /\ "seed" \in DOMAIN node.inputs
       /\ ~IsList(node.inputs["seed"])
       /\ int(new_values["seed"]).ok
    THEN [node EXCEPT !.inputs["seed"] = IntV(int(new_values["seed"]).v)]
    ELSE node

\* lines 351-475: the body of the second loop for one node, statement by
\* statement; an exception ends it
update_step(i, node_id, node, pos, neg, new_values, lora_names, lora_strengths) ==
    CASE i = 1 -> [raised |-> FALSE, node |-> connect_whitelist(node)]
      [] i = 2 -> [raised |-> FALSE, node |-> update_prompts(node_id, node, pos, neg, new_values)]
      [] i = 3 -> [raised |-> FALSE, node |-> update_loras(node, lora_names, lora_strengths)]
      [] i = 4 -> update_models(node, new_values)
      [] OTHER -> [raised |-> FALSE, node |-> update_sampler_seed(node, new_values)]

RECURSIVE update_steps(_, _, _, _, _, _, _, _)
update_steps(i, node_id, st, pos, neg, new_values, lora_names, lora_strengths) ==
    IF i > 5 \/ st.raised THEN st
    ELSE Then(update_step(i, node_id, st.node, pos, neg, new_values, lora_names, lora_strengths),
              LAMBDA nxt : update_steps(i + 1, node_id, nxt, pos, neg, new_values, lora_names, lora_strengths))

update_node(node_id, details, pos, neg, new_values, lora_names, lora_strengths) ==
    update_steps(1, node_id, [raised |-> FALSE, node |-> details], pos, neg, new_values, lora_names, lora_strengths)

\* the items of a dict in insertion order: the nodes as the template file
\* lists them, and the placeholder last when line 318 inserted it
key_order == <<"1", "2", "3", "4", "5", "6", "7", "8", "9", "10", "11", "12", "13", "99999">>
keys(d) == SelectSeq(key_order, LAMBDA k : k \in DOMAIN d)

\* lines 351-475: the second loop; the exception of line 458 leaves the nodes
\* after the raising one as they were
RECURSIVE update_loop(_, _, _, _, _, _, _)
update_loop(wf, ids, pos, neg, new_values, lora_names, lora_strengths) ==
    IF ids = <<>> THEN [raised |-> FALSE, wf |-> wf]
    ELSE Then(update_node(Head(ids), wf[Head(ids)], pos, neg, new_values, lora_names, lora_strengths),
              LAMBDA u : IF u.raised THEN [raised |-> TRUE, wf |-> wf]
                         ELSE Then([wf EXCEPT ![Head(ids)] = u.node],
                                   LAMBDA w : update_loop(w, Tail(ids), pos, neg, new_values, lora_names, lora_strengths)))

\* lines 307-477
update_workflow(prompt_workflow, new_values, lora_names, lora_strengths) ==
    LET wf0 == SetItem(prompt_workflow, dummy_whitelist_id, dummy_whitelist_node)
        pos == positive_nodes(wf0)
        neg == negative_nodes(wf0)
        res == update_loop(wf0, keys(wf0), pos, neg, new_values, lora_names, lora_strengths)
    IN  [raised |-> res.raised, wf |-> res.wf, positive_nodes |-> pos, negative_nodes |-> neg]

(***************************************************************************)
(* Templates and parameter sets the model draws from                       *)
(***************************************************************************)
K_KSampler == <<"K", "S", "a", "m", "p", "l", "e", "r">>
K_CLIPTextEncode == <<"C", "L", "I", "P", "T", "e", "x", "t", "E", "n", "c", "o", "d", "e">>
K_SaveImage == <<"S", "a", "v", "e", "I", "m", "a", "g", "e">>
t_Positive_Prompt == <<"P", "o", "s", "i", "t", "i", "v", "e", " ", "P", "r", "o", "m", "p", "t">>
t_Negative_Prompt == <<"N", "e", "g", "a", "t", "i", "v", "e", " ", "P", "r", "o", "m", "p", "t">>
t_Positive == <<"P", "o", "s", "i", "t", "i", "v", "e">>
t_Negative == <<"N", "e", "g", "a", "t", "i", "v", "e">>
t_Positive_of_Negative == <<"P", "o", "s", "i", "t", "i", "v", "e", " ", "o", "f", " ", "N", "e", "g", "a", "t", "i", "v", "e">>
t_Sampler == <<"S", "a", "m", "p", "l", "e", "r">>
v_cat == <<"c", "a", "t">>
v_blurry == <<"b", "l", "u", "r", "r", "y">>
v_old == <<"o", "l", "d">>
v_dog == <<"d", "o", "g">>
v_tags == <<"t", "a", "g", "s">>
v_ckpt == <<"s", "d", "x", "l">>
v_abc == <<"a", "b", "c">>
v_640 == <<"6", "4", "0">>
v_minus1 == <<"-", "1">>
v_1dot5 == <<"1", ".", "5">>

NoGraph == [id \in {} |-> NoneV]

Node(ct, title, inputs) == [class_type |-> ct, title |-> title, inputs |-> inputs, widgets_values |-> <<>>]

PositivePool == <<
    Node(K_CLIPTextEncode, t_Positive, "text" :> StrV(v_old)),
    Node(K_CLIPTextEncode, t_Positive_Prompt, "text" :> StrV(v_old)),
    Node(K_CLIPTextEncode, t_Positive_Prompt, ("text" :> Ref("2", 0)) @@ ("text_g" :> StrV(v_old))),
    Node(K_DW_Text, T_PROMP_USUARIO, ("value" :> StrV(v_old)) @@ ("prompt" :> StrV(v_old))),
    Node(K_CLIPTextEncode, t_Positive_of_Negative, "text" :> StrV(v_old)),
    Node(K_CLIPTextEncode, <<>>, "text" :> StrV(v_old)) >>

NegativePool == <<
    Node(K_CLIPTextEncode, t_Negative, "text" :> StrV(v_old)),
    Node(K_CLIPTextEncode, t_Negative_Prompt, "text" :> StrV(v_old)),
    Node(K_DW_Text, T_NEGATIVE_PROMP, "text" :> Ref("1", 0)),
    [class_type |-> K_DW_Text, title |-> t_Negative, inputs |-> EmptyDict, widgets_values |-> <<StrV(v_old)>>],
    Node(K_DW_Text, T_PROMP_CHARACTER, "text" :> StrV(v_old)) >>

SamplerPool == <<
    Node(K_KSampler, t_Sampler, ("positive" :> Ref("1", 0)) @@ ("negative" :> Ref("2", 0)) @@ ("seed" :> IntV(7))),
    Node(K_KSampler, t_Sampler, ("positive" :> Ref("1", 0)) @@ ("negative" :> Ref("2", 0)) @@ ("seed" :> Ref("1", 0))),
    Node(K_KSampler, <<>>, ("positive" :> Ref("1", 0)) @@ ("negative" :> Ref("2", 0))) >>

ExtraPool == <<
    Node(K_CheckpointLoaderSimple, <<>>, "ckpt_name" :> StrV(v_old)),
    Node(K_CheckpointLoaderSimple, <<>>, "ckpt_name" :> Ref("1", 0)),
    Node(K_VAELoader, <<>>, "vae_name" :> StrV(v_old)),
    Node(K_DW_resolution, <<>>, ("WIDTH" :> IntV(512)) @@ ("HEIGHT" :> IntV(512)) @@ ("UPSCALER" :> FloatV(10))),
    Node(K_EmptyLatentImage, <<>>, ("width" :> Ref("1", 0)) @@ ("height" :> IntV(512))),
    Node(K_EmptyLatentImage, <<>>, ("width" :> IntV(512)) @@ ("height" :> IntV(512))),
    Node(K_DW_seed, <<>>, "seed" :> IntV(7)),
    Node(K_DW_seed, <<>>, "seed" :> Ref("2", 0)),
    Node(K_DW_LoRAStackApplySimple, <<>>, ("lora_1_name" :> Ref("1", 0)) @@ ("lora_2_name" :> StrV(v_old))),
    Node(K_DW_LoRAStackApplySimple, <<>>, EmptyDict),
    Node(K_DW_Ultimate_Blacklist_Filter, <<>>, "image" :> Ref("2", 0)),
    Node(K_DW_Ultimate_Blacklist_Filter, <<>>, ("image" :> Ref("2", 0)) @@ ("WHITELIST" :> Ref("1", 0))),
    Node(K_DW_Text, T_BLACK_LIST_TAGS, "text" :> StrV(v_old)),
    Node(K_DW_Text, T_PROMP_DETAILERS, "text" :> StrV(v_old)),
    Node(K_SaveImage, <<>>, "images" :> Ref("2", 0)) >>

TailPool == <<
    Node(K_SaveImage, <<>>, "images" :> Ref("3", 0)),
    Node(K_VAELoader, <<>>, "vae_name" :> Ref("1", 0)) >>

\* the number of nodes of the largest template
NumNodes == 3
node_id_of == SubSeq(key_order, 1, 6)

PoolOf(i) == CASE i = 1 -> PositivePool [] i = 2 -> NegativePool
               [] i = 3 -> SamplerPool \o ExtraPool [] OTHER -> TailPool

\* the templates with n nodes: node i is drawn from its pool
RECURSIVE TemplatesOf(_)
TemplatesOf(n) == IF n = 0 THEN {NoGraph}
                  ELSE {SetItem(g, node_id_of[n], PoolOf(n)[k]) : g \in TemplatesOf(n - 1), k \in DOMAIN PoolOf(n)}

Templates == UNION {TemplatesOf(n) : n \in 2..NumNodes}

ParamCases == <<
    [new_values |-> ("prompt" :> StrV(v_cat)) @@ ("negative_prompt" :> StrV(v_blurry)),
     lora_names |-> <<>>, lora_strengths |-> <<>>],
    [new_values |-> ("prompt" :> StrV(v_dog)) @@ ("negative_prompt" :> StrV(v_tags)) @@ ("seed" :> IntV(42))
                    @@ ("width" :> IntV(640)) @@ ("height" :> IntV(480)) @@ ("upscale_by" :> StrV(v_1dot5))
                    @@ ("checkpoint" :> StrV(v_ckpt)) @@ ("vae" :> StrV(v_ckpt)) @@ ("black_list_tags" :> StrV(v_tags))
                    @@ ("promp_detailers" :> StrV(v_tags)) @@ ("promp_character" :> StrV(v_dog))
                    @@ ("enable_blacklist" :> BoolV(TRUE)),
     lora_names |-> <<StrV(v_cat), StrV(v_dog)>>, lora_strengths |-> <<FloatV(8), StrV(v_abc)>>],
    [new_values |-> ("prompt" :> StrV(v_cat)) @@ ("seed" :> StrV(v_abc)) @@ ("width" :> StrV(v_abc))
                    @@ ("height" :> IntV(480)) @@ ("upscale_by" :> NoneV) @@ ("vae" :> StrV(s_None))
                    @@ ("enable_blacklist" :> BoolV(FALSE)) @@ ("black_list_tags" :> StrV(v_tags)),
     lora_names |-> <<StrV(v_cat), StrV(v_dog), StrV(v_tags), StrV(v_ckpt), StrV(v_abc), StrV(v_blurry), StrV(v_640)>>,
     lora_strengths |-> <<IntV(1)>>],
    [new_values |-> ("prompt" :> StrV(v_dog)) @@ ("width" :> StrV(v_640)) @@ ("seed" :> StrV(v_minus1)),
     lora_names |-> <<>>, lora_strengths |-> <<>>],
    [new_values |-> EmptyDict, lora_names |-> <<StrV(v_cat)>>, lora_strengths |-> <<>>] >>


(***************************************************************************)
(* generate_image_from_character up to the call of update_workflow         *)
(***************************************************************************)
NewRequest == [pc |-> "start", kind |-> "image", prompt_workflow_base |-> 0, new_values |-> EmptyDict,
               lora_names |-> <<>>, lora_strengths |-> <<>>, before |-> NoGraph,
               positive_nodes |-> {}, negative_nodes |-> {},
               target_classification |-> "", stage_map |-> EmptyDict, pruned |-> FALSE, updated_workflow |-> 0,
               uploaded_image_name |-> NoneV, randint |-> 0]

SelIdle == [pc |-> "idle"]
OrchIdle == [pc |-> "idle"]
FdIdle == [pc |-> "idle"]

\* one dict that every request is handed
shared_object(r) == 1

\* lines 737-742: json.load builds a new dict on every call; the identity of
\* the object request r gets is r
read_workflow_file(r) == r

ReadWorkflow(r) ==
    /\ req[r].pc = "start"
    /\ req[r].kind = "image"
    /\ objects' = [objects EXCEPT ![read_workflow_file(r)] = workflow_file]
    /\ req' = [req EXCEPT ![r].pc = "loaded", ![r].prompt_workflow_base = read_workflow_file(r)]
    /\ UNCHANGED <<workflow_file, sel, orch, fd>>

\* line 777: updated_workflow = update_workflow(prompt_workflow_base, ...),
\* which writes into the object it is given
Inject(r) ==
    /\ req[r].pc = "loaded"
    /\ \E c \in DOMAIN ParamCases :
          LET o == req[r].prompt_workflow_base
              p == ParamCases[c]
              res == update_workflow(objects[o], p.new_values, p.lora_names, p.lora_strengths)
          IN  /\ objects' = [objects EXCEPT ![o] = res.wf]
              /\ req' = [req EXCEPT ![r].pc = IF res.raised THEN "raised" ELSE "injected",
                                    ![r].new_values = p.new_values,
                                    ![r].lora_names = p.lora_names,
                                    ![r].lora_strengths = p.lora_strengths,
                                    ![r].before = objects[o],
                                    ![r].positive_nodes = res.positive_nodes,
                                    ![r].negative_nodes = res.negative_nodes]
    /\ UNCHANGED <<workflow_file, sel, orch, fd>>

InitInject ==
    /\ workflow_file \in Templates
    /\ objects = [o \in {1} |-> NoGraph]
    /\ req = [r \in {1} |-> NewRequest]
    /\ sel = SelIdle
    /\ orch = OrchIdle
    /\ fd = FdIdle

ReadWorkflowStep == \E r \in DOMAIN req : ReadWorkflow(r)
InjectStep == \E r \in DOMAIN req : Inject(r)

NextInject == ReadWorkflowStep \/ InjectStep

\* update_workflow applied to every template under every parameter case
SpecInject == InitInject /\ [][NextInject]_vars

Injected(r) == req[r].pc = "injected"
After(r) == objects[req[r].prompt_workflow_base]

(* C1: every input field that held a Reference before update_workflow holds
   the identical Reference after it. *)
C1_ReferencesKept ==
    \A r \in DOMAIN req : Injected(r) =>
        \A id \in DOMAIN req[r].before : \A k \in DOMAIN req[r].before[id].inputs :
            IsList(req[r].before[id].inputs[k]) =>
                /\ k \in DOMAIN After(r)[id].inputs
                /\ After(r)[id].inputs[k] = req[r].before[id].inputs[k]

(* C7: the positive and the negative role sets of the title phase are
   disjoint; a node titled "Positive Prompt" is in the positive set only, a
   node titled "Negative Prompt" in the negative set only, and when these are
   the only two role titles of the graph the sets are exactly {A} and {B}. *)
C7_RoleSetsDisjoint ==
    \A r \in DOMAIN req : req[r].pc \in {"injected", "raised"} =>
        LET g == req[r].before
            pos == req[r].positive_nodes
            neg == req[r].negative_nodes
            role(id) == Contains(lower(g[id].title), s_positive) \/ Contains(lower(g[id].title), s_negative)
        IN  /\ pos \cap neg = {}
            /\ \A id \in DOMAIN g :
                  /\ g[id].title = t_Positive_Prompt => id \in pos /\ id \notin neg
                  /\ g[id].title = t_Negative_Prompt => id \in neg /\ id \notin pos
            /\ \A a, b \in DOMAIN g :
                  /\ g[a].title = t_Positive_Prompt
                  /\ g[b].title = t_Negative_Prompt
                  /\ \A id \in DOMAIN g \ {a, b} : ~role(id)
                  => pos = {a} /\ neg = {b}

C7_Witness ==
    /\ Injected(1)
    /\ req[1].before["1"].title = t_Positive_Prompt
    /\ req[1].before["2"].title = t_Negative_Prompt
    /\ req[1].positive_nodes = {"1"}
    /\ req[1].negative_nodes = {"2"}

\* the graph and the parameters of the end-to-end example
C8_Case(r) ==
    LET g == req[r].before IN
    /\ Injected(r)
    /\ DOMAIN g = {"1", "2", "3"}
    /\ g["1"].title = t_Positive /\ "text" \in DOMAIN g["1"].inputs /\ ~IsList(g["1"].inputs["text"])
    /\ g["2"].title = t_Negative /\ "text" \in DOMAIN g["2"].inputs /\ ~IsList(g["2"].inputs["text"])
    /\ Contains(lower(g["3"].class_type), s_sampler)
    /\ g["3"].inputs["positive"] = Ref("1", 0) /\ g["3"].inputs["negative"] = Ref("2", 0)
    /\ req[r].new_values = ("prompt" :> StrV(v_cat)) @@ ("negative_prompt" :> StrV(v_blurry))

(* C8: on the graph {1: "Positive", 2: "Negative", 3: sampler referencing 1
   and 2} with {prompt: "cat", negative_prompt: "blurry"}, node 1's text is
   "cat", node 2's text is "blurry" and node 3 is unchanged. *)
C8_EndToEnd ==
    \A r \in DOMAIN req : C8_Case(r) =>
        /\ After(r)["1"].inputs["text"] = StrV(v_cat)
        /\ After(r)["2"].inputs["text"] = StrV(v_blurry)
        /\ After(r)["3"] = req[r].before["3"]

C8_Witness == C8_Case(1) /\ After(1)["1"].inputs["text"] = StrV(v_cat)


(***************************************************************************)
(* GPU selection: services.get_active_comfyui_address and                  *)
(* video_services.get_active_video_comfyui_address                         *)
(***************************************************************************)
s_http == <<"h", "t", "t", "p", ":", "/", "/">>
s_https == <<"h", "t", "t", "p", "s", ":", "/", "/">>
default_address == <<"1", "2", "7", ".", "0", ".", "0", ".", "1", ":", "8", "1", "8", "8">>

\* str.rstrip(c)
RECURSIVE rstrip(_, _)
rstrip(s, c) == IF s # <<>> /\ s[Len(s)] = c THEN rstrip(SubSeq(s, 1, Len(s) - 1), c) ELSE s

StartsWith(s, prefix) == Len(s) >= Len(prefix) /\ \A j \in DOMAIN prefix : s[j] = prefix[j]

\* str.replace(old, "")
RECURSIVE remove(_, _)
remove(s, old) == IF s = <<>> THEN <<>>
                  ELSE IF StartsWith(s, old) THEN remove(SubSeq(s, Len(old) + 1, Len(s)), old)
                  ELSE <<Head(s)>> \o remove(Tail(s), old)

\* services.py line 29; video_services.py line 29
address_of(variant, config) ==
    IF variant = "video"
    THEN rstrip(remove(remove(config.base_url, s_http), s_https), "/")
    ELSE rstrip(config.base_url, "/")

\* the load a probe reports when it fails
failure_load == 9999

\* what the GET of /queue does: an exception (refused, timed out, a body that
\* is no JSON), or a response with a status and the two queues
Raised == [kind |-> "exception"]
Response(status_code, queue_running, queue_pending) ==
    [kind |-> "response", status_code |-> status_code,
     queue_running |-> queue_running, queue_pending |-> queue_pending]

\* check_gpu_load and check_video_gpu_load
check_gpu_load(variant, config, reply) ==
    IF reply.kind = "response" /\ reply.status_code = 200
    THEN [address |-> address_of(variant, config), load |-> reply.queue_running + reply.queue_pending]
    ELSE [address |-> address_of(variant, config), load |-> failure_load]

\* list.sort(key=lambda x: x[1]): stable, ascending
RECURSIVE insert(_, _)
insert(sorted, x) == IF sorted = <<>> THEN <<x>>
                     ELSE IF x.load < Head(sorted).load THEN <<x>> \o sorted
                     ELSE <<Head(sorted)>> \o insert(Tail(sorted), x)

RECURSIVE sort(_)
sort(results) == IF results = <<>> THEN <<>>
                 ELSE insert(sort(SubSeq(results, 1, Len(results) - 1)), results[Len(results)])

\* the fallback taking the last registered config
last_config(configs) == configs[Len(configs)]

\* line 76: configs[0]
first_config(configs) == configs[1]

\* the selection with equal loads going to the config registered last
best_address_last_tie(variant, configs, results) ==
    LET lowest == CHOOSE i \in DOMAIN results :
                      /\ \A j \in DOMAIN results : results[i].load <= results[j].load
                      /\ \A j \in DOMAIN results : results[j].load = results[i].load => j <= i
    IN  IF results[lowest].load = failure_load THEN address_of(variant, first_config(configs))
        ELSE results[lowest].address

\* lines 68-78 once gather has returned
best_address(variant, configs, results) ==
    LET best == sort(results)[1]
    IN  IF best.load = failure_load THEN address_of(variant, first_config(configs)) ELSE best.address

\* the base_url values of the registry
UrlPool == <<
    <<"a">>,
    <<"b", "/">>,
    <<"h", "t", "t", "p", ":", "/", "/", "c">>,
    <<"h", "t", "t", "p", "s", ":", "/", "/", "d", "/", "/">> >>

\* the largest number of active configs
NumBackends == 3

QueueRunning == {0, 5, 9999}
QueuePending == {0, 1}

Replies == {Raised, Response(500, 0, 0)}
           \cup {Response(200, r, p) : r \in QueueRunning, p \in QueuePending}

\* the registries: n different configs in some order
RECURSIVE ConfigLists(_)
ConfigLists(n) == IF n = 0 THEN {<<>>}
                  ELSE {Append(c, [base_url |-> UrlPool[k]]) : c \in ConfigLists(n - 1), k \in DOMAIN UrlPool}

Registries(n) == {c \in ConfigLists(n) : \A i, j \in DOMAIN c : c[i] = c[j] => i = j}

Pending == [kind |-> "pending"]

InitSelector ==
    /\ workflow_file = NoGraph
    /\ objects = [o \in {1} |-> NoGraph]
    /\ req = [r \in {1} |-> NewRequest]
    /\ \E variant \in {"image", "video"} : \E n \in 0..NumBackends : \E configs \in Registries(n) :
          sel = [pc |-> "start", variant |-> variant, configs |-> configs,
                 replies |-> [i \in DOMAIN configs |-> Pending],
                 results |-> [i \in DOMAIN configs |-> Pending],
                 first_settled |-> 0,
                 returned |-> <<>>]
    /\ orch = OrchIdle
    /\ fd = FdIdle

\* lines 55-61: no config, or a single one that is not probed
ReturnWithoutProbe ==
    /\ sel.pc = "start"
    /\ Len(sel.configs) <= 1
    /\ sel' = [sel EXCEPT !.pc = "done",
                          !.returned = IF sel.configs = <<>> THEN default_address
                                       ELSE address_of(sel.variant, sel.configs[1])]
    /\ UNCHANGED <<workflow_file, objects, req, orch, fd>>

\* lines 64-66: the tasks are created and gathered
StartProbes ==
    /\ sel.pc = "start"
    /\ Len(sel.configs) >= 2
    /\ sel' = [sel EXCEPT !.pc = "probing"]
    /\ UNCHANGED <<workflow_file, objects, req, orch, fd>>

\* one task of the gather finishes; the tasks finish in any order and gather
\* keeps their results in the order of the configs
Probe ==
    /\ sel.pc = "probing"
    /\ \E i \in DOMAIN sel.configs : \E reply \in Replies :
          /\ sel.results[i] = Pending
          /\ sel' = [sel EXCEPT !.replies[i] = reply,
                                !.first_settled = IF @ = 0 THEN i ELSE @,
                                !.results[i] = check_gpu_load(sel.variant, sel.configs[i], reply)]
    /\ UNCHANGED <<workflow_file, objects, req, orch, fd>>

\* lines 68-78
ReturnBest ==
    /\ sel.pc = "probing"
    /\ \A i \in DOMAIN sel.configs : sel.results[i] # Pending
    /\ sel' = [sel EXCEPT !.pc = "done",
                          !.returned = best_address(sel.variant, sel.configs, sel.results)]
    /\ UNCHANGED <<workflow_file, objects, req, orch, fd>>

NextSelector == ReturnWithoutProbe \/ StartProbes \/ Probe \/ ReturnBest

\* one call of the selector on every registry of up to NumBackends configs
SpecSelector == InitSelector /\ [][NextSelector]_vars

\* the probe of config i answered with status 200
Succeeded(i) == sel.replies[i].kind = "response" /\ sel.replies[i].status_code = 200
QueueDepth(i) == sel.replies[i].queue_running + sel.replies[i].queue_pending
Probed == sel.pc = "done" /\ Len(sel.configs) >= 2

(* C3: with two or more backends of which at least one probe succeeded, the
   address returned is that of a successfully probed backend whose queue
   depth is minimal among the successfully probed ones. *)
C3_MinimalLoadChosen ==
    (Probed /\ \E i \in DOMAIN sel.configs : Succeeded(i)) =>
        \E i \in DOMAIN sel.configs :
            /\ Succeeded(i)
            /\ sel.returned = address_of(sel.variant, sel.configs[i])
            /\ \A j \in DOMAIN sel.configs : Succeeded(j) => QueueDepth(i) <= QueueDepth(j)

(* C4: with two or more backends, when every probe failed the selector
   returns the first registered backend and does not raise. *)
C4_AllFailedFirstRegistered ==
    (Probed /\ \A i \in DOMAIN sel.configs : ~Succeeded(i)) =>
        sel.returned = address_of(sel.variant, sel.configs[1])

C4_Witness ==
    /\ Probed
    /\ Len(sel.configs) = 3
    /\ sel.replies[1] = Raised /\ sel.replies[2] = Response(500, 0, 0) /\ sel.replies[3] = Raised
    /\ sel.configs[1].base_url = UrlPool[2]
    /\ sel.returned = <<"b">>

(* C21: with no backend registered the selector returns no address. *)
C21_NoBackendIsAnError ==
    (sel.pc = "done" /\ sel.configs = <<>>) => sel.returned = <<>>

\* the load the probe of config i stands for
Score(i) == IF Succeeded(i) THEN QueueDepth(i) ELSE failure_load

\* the config registered first among those of the lowest score
FirstLowest ==
    CHOOSE i \in DOMAIN sel.configs :
        /\ \A j \in DOMAIN sel.configs : Score(i) <= Score(j)
        /\ \A j \in DOMAIN sel.configs : Score(j) = Score(i) => i <= j

(* C29: with two or more backends the result is computed when every probe
   has settled, and it is a function of the registry order and of the
   outcome of each probe alone, whatever the order in which the probes
   finished: the backend registered first among those of the lowest load,
   or the first registered backend when that load is the failure load. *)
C29_ResultIndependentOfOrder ==
    Probed =>
        /\ \A i \in DOMAIN sel.configs : sel.replies[i] # Pending /\ sel.results[i] # Pending
        /\ sel.returned = IF Score(FirstLowest) = failure_load
                          THEN address_of(sel.variant, sel.configs[1])
                          ELSE address_of(sel.variant, sel.configs[FirstLowest])

\* the probe of the third backend settles first, the second and the third
\* report the same lowest load, and the second is returned
C29_Witness ==
    /\ Probed
    /\ Len(sel.configs) = 3
    /\ sel.first_settled = 3
    /\ Succeeded(1) /\ Succeeded(2) /\ Succeeded(3)
    /\ QueueDepth(1) = 5 /\ QueueDepth(2) = 1 /\ QueueDepth(3) = 1
    /\ sel.returned = address_of(sel.variant, sel.configs[2])
    /\ sel.returned # address_of(sel.variant, sel.configs[3])

(***************************************************************************)
(* The generation calls from websockets.connect on:                        *)
(* services.generate_image_from_character lines 853-877 and                *)
(* video_services.generate_video_task lines 456-514                        *)
(***************************************************************************)
JobIds == {"job-a", "job-b"}

\* what websocket.recv() returns: a binary frame, or the text of a JSON
\* message with a type and, for the types that have them, data.node and
\* data.prompt_id
BinaryFrame == [kind |-> "bytes"]
Message(type, node, prompt_id) == [kind |-> "str", type |-> type, node |-> node, prompt_id |-> prompt_id]
NoFrame == [kind |-> "none"]

Frames == {BinaryFrame}
          \cup {Message("status", "", "")}
          \cup {Message("execution_error", n, j) : n \in {"3"}, j \in JobIds}
          \cup {Message("executing", n, j) : n \in {"null", "3"}, j \in JobIds}

\* the most frames one call receives
MaxFrames == 3

\* the answer of GET /history/<prompt_id>
Histories == {"http_error", "no_entry", "no_outputs", "outputs"}

\* the nodes of history[prompt_id]['outputs'] in the order of the dict: the
\* title the graph gives the node and the number of files it lists
t_Upscale == <<"U", "p", "s", "c", "a", "l", "e">>
t_Base == <<"B", "a", "s", "e">>
OutputTitles == {t_Upscale, t_Base}

\* the most files one node lists, and the most nodes with an output
MaxImages == 2
MaxOutputs == 2

NodeOutputs == {[title |-> t, images |-> n] : t \in OutputTitles, n \in 0..MaxImages}

RECURSIVE ManifestsOf(_)
ManifestsOf(n) == IF n = 0 THEN {<<>>}
                  ELSE {Append(m, o) : m \in ManifestsOf(n - 1), o \in NodeOutputs}

Manifests == UNION {ManifestsOf(n) : n \in 1..MaxOutputs}

\* the allowed_types a caller passes
AllowedTypes == {<<>>, <<"Gen_Normal">>, <<"Gen_Normal", "Gen_UpScaler">>}

\* services.py line 851
last_allowed_type(allowed_types) ==
    IF allowed_types # <<>> THEN allowed_types[Len(allowed_types)] ELSE "Gen_Normal"

\* a call that submits without an event channel
entry_without_channel(variant) == "queue_prompt"

\* the first backend interaction of a call: websockets.connect, services.py
\* line 853 and video_services.py line 455
entry_point(variant) == "connect"

\* the backend interactions of a call so far, in the order they were made:
\* "connect", "submit", "recv", "history", "download"
NewCall(variant) ==
    [pc |-> entry_point(variant), log |-> <<>>, submit |-> "", terminal |-> FALSE,
     variant |-> variant, allowed_types |-> <<>>, prompt_id |-> "", received |-> 0,
     last |-> NoFrame, execution_error |-> FALSE, left_by |-> "", history |-> "",
     manifest |-> <<>>, node |-> 0, file |-> 0, failed_download |-> FALSE, images_data |-> <<>>,
     outcome |-> "", artifacts |-> 0]

InitOrch ==
    /\ workflow_file = NoGraph
    /\ objects = [o \in {1} |-> NoGraph]
    /\ req = [r \in {1} |-> NewRequest]
    /\ sel = SelIdle
    /\ \E variant \in {"image", "video"} : \E allowed_types \in AllowedTypes :
          orch = [NewCall(variant) EXCEPT !.allowed_types = IF variant = "image" THEN allowed_types ELSE <<>>]
    /\ fd = FdIdle

\* services.py line 853, video_services.py line 455: the websocket is
\* connected, or websockets.connect raises
Connect ==
    /\ orch.pc = "connect"
    /\ \/ orch' = [orch EXCEPT !.pc = "queue_prompt", !.log = Append(@, "connect")]
       \/ orch' = [orch EXCEPT !.pc = "done", !.log = Append(@, "connect"), !.outcome = "raised"]
    /\ UNCHANGED <<workflow_file, objects, req, sel, fd>>

\* what the POST of /prompt answers: the prompt_id of the job, an error
\* status for a graph that does not validate, or no answer at all
Acknowledged(prompt_id) == [kind |-> "acknowledged", prompt_id |-> prompt_id]
Rejected == [kind |-> "rejected"]
Unreachable == [kind |-> "unreachable"]
SubmitAnswers == {Acknowledged(j) : j \in JobIds} \cup {Rejected, Unreachable}

\* a submit that takes every answer for an acknowledgement
queue_prompt_lenient(answer) ==
    [raised |-> FALSE, prompt_id |-> IF answer.kind = "acknowledged" THEN answer.prompt_id ELSE ""]

\* services.py lines 124-135 and 856, video_services.py lines 108-121 and
\* 457: raise_for_status raises on the error status and queue_prompt raises
\* an Exception in its place; a connection error is not caught
queue_prompt(answer) ==
    IF answer.kind = "acknowledged" THEN [raised |-> FALSE, prompt_id |-> answer.prompt_id]
    ELSE [raised |-> TRUE, prompt_id |-> ""]

\* services.py lines 855-856, video_services.py lines 456-457
QueuePrompt ==
    /\ orch.pc = "queue_prompt"
    /\ \E answer \in SubmitAnswers :
          LET queued == queue_prompt(answer)
          IN  orch' = [orch EXCEPT !.log = Append(@, "submit"),
                                   !.submit = answer.kind,
                                   !.prompt_id = queued.prompt_id,
                                   !.pc = IF queued.raised THEN "done" ELSE "streaming",
                                   !.outcome = IF queued.raised THEN "raised" ELSE ""]
    /\ UNCHANGED <<workflow_file, objects, req, sel, fd>>

\* services.py lines 862-865: what the image loop does with a text message
image_on_message(message) ==
    IF message.type = "executing" /\ message.node = "null" THEN "break" ELSE "continue"

\* video_services.py lines 467-470: what the video loop does with a text message
video_on_message(message, prompt_id) ==
    IF message.type = "execution_error" THEN "raise"
    ELSE IF message.type = "executing" /\ message.node = "null" /\ message.prompt_id = prompt_id THEN "break"
    ELSE "continue"

on_frame(variant, out, prompt_id) ==
    IF out.kind # "str" THEN "continue"
    ELSE IF variant = "image" THEN image_on_message(out)
    ELSE video_on_message(out, prompt_id)

\* an event that ends the stream of a job: its execution_error or the
\* "executing" message without a node
terminal_event(out, prompt_id) ==
    /\ out.kind = "str"
    /\ out.prompt_id = prompt_id
    /\ \/ out.type = "execution_error"
       \/ out.type = "executing" /\ out.node = "null"

\* one iteration of the while True loop in which recv() returns a frame
Recv ==
    /\ orch.pc = "streaming"
    /\ orch.received < MaxFrames
    /\ \E out \in Frames :
          LET todo == on_frame(orch.variant, out, orch.prompt_id)
              error == out.kind = "str" /\ out.type = "execution_error"
          IN  orch' = [orch EXCEPT !.received = @ + 1,
                                   !.log = Append(@, "recv"),
                                   !.last = out,
                                   !.terminal = @ \/ terminal_event(out, orch.prompt_id),
                                   !.execution_error = @ \/ error,
                                   !.pc = CASE todo = "break" -> "get_history"
                                            [] todo = "raise" -> "done"
                                            [] OTHER -> "streaming",
                                   !.left_by = CASE todo = "break" -> "executing"
                                                 [] todo = "raise" -> "execution_error"
                                                 [] OTHER -> "",
                                   !.outcome = IF todo = "raise" THEN "raised" ELSE ""]
    /\ UNCHANGED <<workflow_file, objects, req, sel, fd>>

\* one iteration in which recv() raises ConnectionClosed: break
ConnectionClosed ==
    /\ orch.pc = "streaming"
    /\ orch' = [orch EXCEPT !.pc = "get_history", !.log = Append(@, "recv"), !.left_by = "ConnectionClosed"]
    /\ UNCHANGED <<workflow_file, objects, req, sel, fd>>

\* the first node from position i on that lists a file, 0 when there is none
next_output(manifest, i) ==
    IF \E j \in i..Len(manifest) : manifest[j].images > 0
    THEN CHOOSE j \in i..Len(manifest) : manifest[j].images > 0 /\ \A k \in i..(j - 1) : manifest[k].images = 0
    ELSE 0

\* where the loops go on after a download that gave no content: the image
\* loop (services.py lines 870-876) asks for images[0] of each node only, the
\* video loop (video_services.py lines 485-509) for each file of the node
after_failure(variant, manifest, node, file) ==
    IF variant = "video" /\ file < manifest[node].images
    THEN [node |-> node, file |-> file + 1]
    ELSE [node |-> next_output(manifest, node + 1), file |-> 1]

\* the return or raise when the loop over the outputs has ended without a
\* break: services.py line 877 returns images_data as it is, video_services.py
\* lines 511-512 raise
loop_exhausted(variant) == IF variant = "image" THEN "returned" ELSE "raised"

\* services.py lines 868-870, video_services.py lines 475-476: get_history
\* raises on an error status, history[prompt_id] raises KeyError when the job
\* has no entry
GetHistory ==
    /\ orch.pc = "get_history"
    /\ \/ \E h \in Histories \ {"outputs"} :
             orch' = [orch EXCEPT !.history = h,
                                  !.log = Append(@, "history"),
                                  !.pc = "done",
                                  !.outcome = IF h = "no_outputs" THEN loop_exhausted(orch.variant) ELSE "raised"]
       \/ \E manifest \in Manifests :
             LET first == next_output(manifest, 1)
             IN  orch' = [orch EXCEPT !.history = "outputs",
                                      !.log = Append(@, "history"),
                                      !.manifest = manifest,
                                      !.node = first,
                                      !.file = IF first = 0 THEN 0 ELSE 1,
                                      !.pc = IF first = 0 THEN "done" ELSE "download",
                                      !.outcome = IF first = 0 THEN loop_exhausted(orch.variant) ELSE ""]
    /\ UNCHANGED <<workflow_file, objects, req, sel, fd>>

\* one call of get_image or get_video_file, which return the content, or
\* None when the download fails: with content the loop is left (services.py
\* lines 874-876, video_services.py line 509), without it the loop goes on
Download ==
    /\ orch.pc = "download"
    /\ \E content \in BOOLEAN :
          LET next == after_failure(orch.variant, orch.manifest, orch.node, orch.file)
          IN  IF content
              THEN orch' = [orch EXCEPT !.pc = "done",
                                        !.log = Append(@, "download"),
                                        !.images_data = Append(@, [node |-> orch.node, image |-> orch.file,
                                                                   classification |-> last_allowed_type(orch.allowed_types)]),
                                        !.artifacts = 1,
                                        !.outcome = "returned"]
              ELSE orch' = [orch EXCEPT !.failed_download = TRUE,
                                        !.log = Append(@, "download"),
                                        !.node = next.node,
                                        !.file = next.file,
                                        !.pc = IF next.node = 0 THEN "done" ELSE "download",
                                        !.outcome = IF next.node = 0 THEN loop_exhausted(orch.variant) ELSE ""]
    /\ UNCHANGED <<workflow_file, objects, req, sel, fd>>

NextOrch == Connect \/ QueuePrompt \/ Recv \/ ConnectionClosed \/ GetHistory \/ Download

\* one image call and one video call against every stream of up to
\* MaxFrames frames
SpecOrch == InitOrch /\ [][NextOrch]_vars

(* C2: once an execution_error message has been received, the call ends in
   a raised error and returns no artifacts, whatever arrives later. *)
C2_ErrorForcesFailure ==
    (orch.pc = "done" /\ orch.execution_error) => (orch.outcome = "raised" /\ orch.artifacts = 0)

(* C9: the streaming loop is left for the completed path only on an
   "executing" message whose node is null and whose prompt_id is the one
   acknowledged at submit. *)
C9_CompletionMatchesJob ==
    orch.left_by = "executing" =>
        /\ orch.last.kind = "str" /\ orch.last.type = "executing"
        /\ orch.last.node = "null"
        /\ orch.last.prompt_id = orch.prompt_id

(* C10: when the connection closes before an execution_error or a
   completion message was received, the call ends in a raised error and the
   history is not fetched. *)
C10_ClosedStreamFails ==
    (orch.left_by = "ConnectionClosed" /\ ~orch.execution_error) =>
        /\ orch.history = ""
        /\ orch.outcome # "returned"


(***************************************************************************)
(* services.find_dependencies                                              *)
(***************************************************************************)
\* the values of a dict, in the one order the dict has
RECURSIVE SeqOf(_)
SeqOf(S) == IF S = {} THEN <<>>
            ELSE LET x == CHOOSE y \in S : TRUE IN <<x>> \o SeqOf(S \ {x})

values(d) == LET ks == SeqOf(DOMAIN d) IN [i \in DOMAIN ks |-> d[ks[i]]]

\* line 491: str(value[0])
dependency_id(value) == IF "num" \in DOMAIN value THEN DigitChars[value.num + 1] ELSE value.id

\* the scan of a node that stops after its first reference
first_dependency(node, nodes_to_keep) ==
    LET vs == SelectSeq(values(node.inputs), LAMBDA value : IsList(value) /\ dependency_id(value) \notin nodes_to_keep)
    IN  IF vs = <<>> THEN <<>> ELSE <<dependency_id(vs[1])>>

\* lines 488-493: what the scan of one node appends to the queue
dependencies(node, nodes_to_keep) ==
    LET vs == SelectSeq(values(node.inputs), LAMBDA value : IsList(value) /\ dependency_id(value) \notin nodes_to_keep)
    IN  [i \in DOMAIN vs |-> dependency_id(vs[i])]

\* lines 482-493: the while loop
RECURSIVE find_loop(_, _, _)
find_loop(workflow, queue, nodes_to_keep) ==
    IF queue = <<>> THEN nodes_to_keep
    ELSE LET current_id == Head(queue)
         IN  IF current_id \in nodes_to_keep THEN find_loop(workflow, Tail(queue), nodes_to_keep)
             ELSE IF current_id \in DOMAIN workflow
             THEN find_loop(workflow,
                            Tail(queue) \o dependencies(workflow[current_id], nodes_to_keep \cup {current_id}),
                            nodes_to_keep \cup {current_id})
             ELSE find_loop(workflow, Tail(queue), nodes_to_keep \cup {current_id})

\* lines 479-494
find_dependencies(workflow, start_node_id) == find_loop(workflow, <<start_node_id>>, {})

\* the number of nodes of the graphs find_dependencies is run on
NumDepNodes == 4

\* the Reference inputs a graph of n nodes may hold: the chain in which each
\* node references its predecessor, an edge closing a cycle, a shortcut, a
\* self reference, a reference to a node that does not exist and one with
\* an int id
ChainEdges(n) == {[from |-> node_id_of[i + 1], field |-> "in", value |-> Ref(node_id_of[i], 0)] : i \in 1..(n - 1)}
ExtraEdges(n) == {[from |-> "1", field |-> "back", value |-> Ref(node_id_of[n], 0)],
                  [from |-> node_id_of[n], field |-> "skip", value |-> Ref("1", 1)],
                  [from |-> "2", field |-> "self", value |-> Ref("2", 0)],
                  [from |-> "3", field |-> "gone", value |-> Ref("9", 0)],
                  [from |-> "1", field |-> "num", value |-> RefNum(3, 0)]}

DepGraph(n, edges) ==
    [id \in {node_id_of[i] : i \in 1..n} |->
        Node(K_SaveImage, <<>>,
             [f \in {"text"} \cup {e.field : e \in {x \in edges : x.from = id}} |->
                 IF f = "text" THEN StrV(v_old)
                 ELSE (CHOOSE e \in edges : e.from = id /\ e.field = f).value])]

Chain == DepGraph(NumDepNodes, ChainEdges(NumDepNodes))

InitDeps ==
    /\ workflow_file = NoGraph
    /\ objects = [o \in {1} |-> NoGraph]
    /\ req = [r \in {1} |-> NewRequest]
    /\ sel = SelIdle
    /\ orch = OrchIdle
    /\ \E extra \in SUBSET ExtraEdges(NumDepNodes) : \E chain \in SUBSET ChainEdges(NumDepNodes) :
       \E start \in {node_id_of[i] : i \in 1..NumDepNodes} :
          fd = [pc |-> "call", workflow |-> DepGraph(NumDepNodes, chain \cup extra),
                start_node_id |-> start, nodes_to_keep |-> {}]

FindDependencies ==
    /\ fd.pc = "call"
    /\ fd' = [fd EXCEPT !.pc = "returned", !.nodes_to_keep = find_dependencies(fd.workflow, fd.start_node_id)]
    /\ UNCHANGED <<workflow_file, objects, req, sel, orch>>

NextDeps == FindDependencies

\* find_dependencies on every graph of NumDepNodes nodes over the edges above
SpecDeps == InitDeps /\ [][NextDeps]_vars

\* the node ids the Reference inputs of node id name
References(workflow, id) ==
    IF id \in DOMAIN workflow
    THEN {dependency_id(workflow[id].inputs[f]) : f \in {k \in DOMAIN workflow[id].inputs : IsList(workflow[id].inputs[k])}}
    ELSE {}

\* S holds start and, with each node, the nodes it references
ClosedFrom(workflow, start, S) == start \in S /\ \A id \in S : References(workflow, id) \subseteq S

(* C6: find_dependencies returns exactly the nodes reachable from start
   through Reference inputs, start included: the result is closed under
   references and no smaller set is; on the chain 1<-2<-3<-4 it is
   {1,2,3,4} from node 4 and {1,2} from node 2. *)
C6_ExactlyReachable ==
    fd.pc = "returned" =>
        /\ ClosedFrom(fd.workflow, fd.start_node_id, fd.nodes_to_keep)
        /\ \A S \in SUBSET fd.nodes_to_keep :
              ClosedFrom(fd.workflow, fd.start_node_id, S) => S = fd.nodes_to_keep
        /\ (fd.workflow = Chain /\ fd.start_node_id = "4") => fd.nodes_to_keep = {"1", "2", "3", "4"}
        /\ (fd.workflow = Chain /\ fd.start_node_id = "2") => fd.nodes_to_keep = {"1", "2"}

C6_Witness ==
    /\ fd.pc = "returned"
    /\ fd.workflow = Chain
    /\ fd.start_node_id = "4"
    /\ fd.nodes_to_keep = {"1", "2", "3", "4"}


(***************************************************************************)
(* services.map_workflow_stages and the pruning of                         *)
(* generate_image_from_character, lines 779-844, on API-format graphs      *)
(***************************************************************************)
s_SAM == <<"S", "A", "M">>
s_eye == <<"e", "y", "e">>
s_face == <<"f", "a", "c", "e">>
s_Resize == <<"R", "e", "s", "i", "z", "e">>
s_Upscale == <<"U", "p", "s", "c", "a", "l", "e">>
s_Blacklist_Filter == <<"B", "l", "a", "c", "k", "l", "i", "s", "t", "_", "F", "i", "l", "t", "e", "r">>
T_FINAL_IMAGE == <<"F", "I", "N", "A", "L", "_", "I", "M", "A", "G", "E">>
titles_to_keep == {T_PROMP_CHARACTER, T_PROMP_USUARIO, T_PROMP_DETAILERS, T_NEGATIVE_PROMP, T_BLACK_LIST_TAGS}

NoStages == [x \in {} |-> ""]

\* lines 521-523
sampler_nodes(workflow) ==
    SelectSeq(keys(workflow), LAMBDA id : Contains(lower(workflow[id].class_type), s_sampler))

\* lines 530-554 for one sampler: the stage its mask names, "" for none and
\* "raise" where mask_prompt.lower() has no str to work on
mask_stage(workflow, sampler_id) ==
    LET inputs == workflow[sampler_id].inputs
        mask_source_id == dependency_id(inputs["mask"])
        mask_node == workflow[mask_source_id]
    IN  IF ~("mask" \in DOMAIN inputs /\ IsList(inputs["mask"])) THEN ""
        ELSE IF mask_source_id \notin DOMAIN workflow THEN ""
        ELSE IF ~Contains(mask_node.class_type, s_SAM) THEN ""
        ELSE IF "prompt" \in DOMAIN mask_node.inputs
        THEN IF mask_node.inputs["prompt"].kind # "str" THEN "raise"
             ELSE IF Contains(lower(mask_node.inputs["prompt"].v), s_eye) THEN "Gen_EyeDetailer"
             ELSE IF Contains(lower(mask_node.inputs["prompt"].v), s_face) THEN "Gen_FaceDetailer"
             ELSE ""
        ELSE IF mask_node.widgets_values # <<>> /\ mask_node.widgets_values[1].kind = "str"
        THEN IF Contains(lower(mask_node.widgets_values[1].v), s_eye) THEN "Gen_EyeDetailer"
             ELSE IF Contains(lower(mask_node.widgets_values[1].v), s_face) THEN "Gen_FaceDetailer"
             ELSE ""
        ELSE ""

RECURSIVE mask_pass(_, _, _)
mask_pass(workflow, ids, st) ==
    IF ids = <<>> \/ st.raised THEN st
    ELSE Then(mask_stage(workflow, Head(ids)),
              LAMBDA stage :
                 Then(IF stage = "raise" THEN [st EXCEPT !.raised = TRUE]
                      ELSE IF stage = "" THEN st
                      ELSE [st EXCEPT !.stage_map = SetItem(@, stage, Head(ids))],
                      LAMBDA nxt : mask_pass(workflow, Tail(ids), nxt)))

\* lines 563-574: the source of latent_image or image is a resize or an upscale
feeds_from_upscale(workflow, inputs, input_name) ==
    /\ input_name \in DOMAIN inputs
    /\ IsList(inputs[input_name])
    /\ dependency_id(inputs[input_name]) \in DOMAIN workflow
    /\ LET class_type == workflow[dependency_id(inputs[input_name])].class_type
       IN  Contains(class_type, s_Resize) \/ Contains(class_type, s_Upscale)

\* lines 557-577 for one sampler
second_stage(workflow, sampler_id, stage_map) ==
    LET inputs == workflow[sampler_id].inputs
    IN  IF \E k \in DOMAIN stage_map : stage_map[k] = sampler_id THEN ""
        ELSE IF feeds_from_upscale(workflow, inputs, "latent_image") \/ feeds_from_upscale(workflow, inputs, "image")
        THEN "Gen_UpScaler"
        ELSE IF "latent_image" \notin DOMAIN inputs /\ "image" \notin DOMAIN inputs THEN "Gen_Normal"
        ELSE ""

RECURSIVE second_pass(_, _, _)
second_pass(workflow, ids, stage_map) ==
    IF ids = <<>> THEN stage_map
    ELSE Then(second_stage(workflow, Head(ids), stage_map),
              LAMBDA stage :
                 Then(IF stage = "" THEN stage_map ELSE SetItem(stage_map, stage, Head(ids)),
                      LAMBDA nxt : second_pass(workflow, Tail(ids), nxt)))

\* lines 496-578
map_workflow_stages(workflow) ==
    Then(sampler_nodes(workflow),
         LAMBDA samplers :
            Then(mask_pass(workflow, samplers, [raised |-> FALSE, stage_map |-> NoStages]),
                 LAMBDA first : IF first.raised THEN first
                                ELSE [first EXCEPT !.stage_map = second_pass(workflow, samplers, @)]))

\* lines 794-822: the first node titled FINAL_IMAGE, the filter it shows and
\* the tagger of that filter; "" stands for None
final_output(workflow) ==
    LET finals == SelectSeq(keys(workflow), LAMBDA id : upper(workflow[id].title) = T_FINAL_IMAGE)
        final_id == finals[1]
        inputs == workflow[final_id].inputs
        candidate_id == IF "id" \in DOMAIN inputs["images"] THEN inputs["images"].id ELSE ""
        candidate_node == workflow[candidate_id]
        is_filter == /\ "images" \in DOMAIN inputs
                     /\ candidate_id \in DOMAIN workflow
                     /\ Contains(candidate_node.class_type, s_Blacklist_Filter)
        tagger == candidate_node.inputs["INPUT_STRING"]
    IN  IF finals = <<>> THEN [final_output_node_id |-> "", filter_node_id |-> "", tagger_node_id |-> ""]
        ELSE [final_output_node_id |-> final_id,
              filter_node_id |-> IF is_filter THEN candidate_id ELSE "",
              tagger_node_id |-> IF is_filter /\ "INPUT_STRING" \in DOMAIN candidate_node.inputs
                                    /\ "id" \in DOMAIN tagger
                                 THEN tagger.id ELSE ""]

\* a graph left as it is wired
not_rewired(workflow, found, target_sampler_id) == workflow

\* lines 826-828: the filter and the tagger are fed from the target sampler
rewire(workflow, found, target_sampler_id) ==
    LET w1 == [workflow EXCEPT ![found.filter_node_id].inputs =
                  SetItem(@, "image", Ref(target_sampler_id, 5))]
    IN  IF found.tagger_node_id # "" /\ found.tagger_node_id \in DOMAIN w1
        THEN [w1 EXCEPT ![found.tagger_node_id].inputs = SetItem(@, "image", Ref(target_sampler_id, 5))]
        ELSE w1

\* the dependencies of the final output alone
only_dependencies(workflow, final_output_node_id) == find_dependencies(workflow, final_output_node_id)

\* lines 830-841
required_nodes(workflow, final_output_node_id) ==
    find_dependencies(workflow, final_output_node_id)
    \cup {nid \in DOMAIN workflow : upper(workflow[nid].title) \in titles_to_keep}

\* lines 779-844 for allowed_types[-1] = target_classification: the graph
\* the request goes on with, the working graph as the rewiring leaves it,
\* and raised for the AttributeError of map_workflow_stages and the KeyError
\* of line 843 on a required node the graph does not hold
prune_found(workflow, target_sampler_id, found) ==
    IF target_sampler_id = "" \/ found.final_output_node_id = "" \/ found.filter_node_id = ""
    THEN [raised |-> FALSE, pruned |-> FALSE, working |-> workflow, updated_workflow |-> workflow]
    ELSE Then(rewire(workflow, found, target_sampler_id),
              LAMBDA rewired :
                 Then(required_nodes(rewired, found.final_output_node_id),
                      LAMBDA required :
                         IF ~(required \subseteq DOMAIN rewired)
                         THEN [raised |-> TRUE, pruned |-> FALSE, working |-> rewired, updated_workflow |-> rewired]
                         ELSE [raised |-> FALSE, pruned |-> TRUE, working |-> rewired,
                               updated_workflow |-> [nid \in required |-> rewired[nid]]]))

prune(workflow, target_classification) ==
    Then(map_workflow_stages(workflow),
         LAMBDA stages :
            IF stages.raised
            THEN [raised |-> TRUE, pruned |-> FALSE, working |-> workflow, updated_workflow |-> workflow]
            ELSE Then(final_output(workflow),
                      LAMBDA found :
                         prune_found(workflow,
                                     IF target_classification \in DOMAIN stages.stage_map
                                     THEN stages.stage_map[target_classification] ELSE "",
                                     found)))

(***************************************************************************)
(* video_services.update_video_workflow                                    *)
(***************************************************************************)
K_DW_Img2Vid == <<"D", "W", "_", "I", "m", "g", "2", "V", "i", "d">>
K_LoadImage == <<"L", "o", "a", "d", "I", "m", "a", "g", "e">>
K_Int == <<"I", "n", "t">>
K_LoraLoaderModelOnly == <<"L", "o", "r", "a", "L", "o", "a", "d", "e", "r", "M", "o", "d", "e", "l", "O", "n", "l", "y">>

\* if id in wf: wf[id]["inputs"][field] = v
put(wf, id, field, v) == IF id \in DOMAIN wf THEN [wf EXCEPT ![id].inputs = SetItem(@, field, v)] ELSE wf

\* the same assignment for the two node ids a parameter is written to
put2(wf, id1, id2, field, v) == put(put(wf, id1, field, v), id2, field, v)

\* lines 243-269: one numeric parameter and the two nodes that take it;
\* int() raises on a text that is no number
put_int(st, params, key, id1, id2) ==
    IF key \notin DOMAIN params \/ ({id1, id2} \cap DOMAIN st.wf = {}) THEN st
    ELSE IF ~int(params[key]).ok THEN [st EXCEPT !.raised = TRUE]
    ELSE [st EXCEPT !.wf = put2(put2(@, id1, id2, "value", IntV(int(params[key]).v)),
                                id1, id2, "int_value", IntV(int(params[key]).v))]

\* lines 288-308: one model parameter and the two nodes that take it
put_name(st, params, key, id1, id2, field) ==
    IF key \in DOMAIN params THEN [st EXCEPT !.wf = put2(@, id1, id2, field, params[key])] ELSE st

\* lines 272-279; randint is what random.randint returns
video_seed(params, randint) ==
    LET used_seed == IF "seed" \in DOMAIN params THEN params["seed"] ELSE NoneV
    IN  IF used_seed.kind = "none" THEN randint
        ELSE IF used_seed.kind = "str" /\ used_seed.v \in {<<"-", "1">>, <<>>} THEN randint
        ELSE IF used_seed.kind = "int" /\ used_seed.v = 0 - 1 THEN randint
        ELSE IF int(used_seed).ok THEN int(used_seed).v
        ELSE randint

\* a list of the parameters
ListV(items) == [kind |-> "list", items |-> items]

\* lines 311-346 and 351-381: the stack node of the newer id when the graph
\* has it, else the one of the older id, then the legacy loader; float() of a
\* missing or unreadable strength is caught and leaves 1.0
video_loras(st, params, names_key, strengths_key, old_id, new_id, legacy_id) ==
    IF names_key \notin DOMAIN params \/ strengths_key \notin DOMAIN params THEN st
    ELSE LET lora_names == params[names_key].items
             lora_strengths == params[strengths_key].items
             node_id == IF new_id \in DOMAIN st.wf THEN new_id
                        ELSE IF old_id \in DOMAIN st.wf THEN old_id ELSE ""
             stacked == IF node_id = "" THEN st.wf
                        ELSE [st.wf EXCEPT ![node_id].inputs = lora_slots(@, lora_names, lora_strengths)]
             strength_model == IF Len(lora_strengths) > 0 /\ float(lora_strengths[1]).ok
                               THEN FloatV(float(lora_strengths[1]).v) ELSE FloatV(10)
         IN  [st EXCEPT !.wf = IF legacy_id \in DOMAIN stacked /\ Len(lora_names) > 0 /\ lora_names[1] # StrV(s_None)
                               THEN put(put(stacked, legacy_id, "lora_name", lora_names[1]),
                                        legacy_id, "strength_model", strength_model)
                               ELSE stacked]

\* lines 385-390
force_save_output(wf) ==
    [id \in DOMAIN wf |-> IF wf[id].class_type = K_DW_Img2Vid
                          THEN [wf[id] EXCEPT !.inputs = SetItem(@, "save_output", BoolV(TRUE))]
                          ELSE wf[id]]

\* lines 225-390, block by block
video_step(i, st, params, uploaded_image_name, randint) ==
    CASE i = 1 -> IF ~Falsy(uploaded_image_name)
                  THEN [st EXCEPT !.wf = put2(@, "2", "36", "image", uploaded_image_name)] ELSE st
      [] i = 2 -> IF "prompt" \in DOMAIN params
                  THEN [st EXCEPT !.wf = put2(@, "17", "54", "text", params["prompt"])] ELSE st
      [] i = 3 -> IF "negative_prompt" \in DOMAIN params
                  THEN [st EXCEPT !.wf = put2(@, "10", "55", "text", params["negative_prompt"])] ELSE st
      [] i = 4 -> put_int(st, params, "duration", "29", "35")
      [] i = 5 -> put_int(st, params, "fps", "30", "37")
      [] i = 6 -> put_int(st, params, "quality", "32", "45")
      [] i = 7 -> [st EXCEPT !.used_seed = video_seed(params, randint),
                             !.wf = put2(@, "6", "50", "seed", IntV(video_seed(params, randint)))]
      [] i = 8 -> put_name(st, params, "unet_high", "5", "52", "unet_name")
      [] i = 9 -> put_name(st, params, "unet_low", "4", "53", "unet_name")
      [] i = 10 -> put_name(st, params, "vae", "1", "48", "vae_name")
      [] i = 11 -> put_name(st, params, "clip", "7", "57", "clip_name")
      [] i = 12 -> video_loras(st, params, "lora_names_high", "lora_strengths_high", "15", "51", "26")
      [] i = 13 -> video_loras(st, params, "lora_names_low", "lora_strengths_low", "16", "56", "27")
      [] OTHER -> [st EXCEPT !.wf = force_save_output(@)]

RECURSIVE video_steps(_, _, _, _, _)
video_steps(i, st, params, uploaded_image_name, randint) ==
    IF i > 14 \/ st.raised THEN st
    ELSE Then(video_step(i, st, params, uploaded_image_name, randint),
              LAMBDA nxt : video_steps(i + 1, nxt, params, uploaded_image_name, randint))

\* lines 218-392 on the copy wf the caller made on line 223
update_video_workflow(wf, params, uploaded_image_name, randint) ==
    video_steps(1, [raised |-> FALSE, wf |-> wf, used_seed |-> 0], params, uploaded_image_name, randint)

(***************************************************************************)
(* Two requests on one template                                            *)
(***************************************************************************)
Requests == {1, 2}

\* the dict a request builds for its pruned graph, and the copy
\* json.loads(json.dumps(workflow)) makes
new_dict(r) == r + 2

v_img == <<"i", "m", "g">>
K_WD14Tagger == <<"W", "D", "1", "4", "T", "a", "g", "g", "e", "r">>

PrunableGraph ==
    ("1" :> Node(K_DW_Text, T_PROMP_USUARIO, "text" :> StrV(v_old)))
    @@ ("2" :> Node(K_KSampler, t_Sampler, ("positive" :> Ref("1", 0)) @@ ("seed" :> IntV(7))))
    @@ ("3" :> Node(K_WD14Tagger, <<>>, "image" :> Ref("2", 0)))
    @@ ("4" :> Node(K_DW_Ultimate_Blacklist_Filter, <<>>, ("image" :> Ref("2", 0)) @@ ("INPUT_STRING" :> Ref("3", 0))))
    @@ ("5" :> Node(K_SaveImage, T_FINAL_IMAGE, "images" :> Ref("4", 0)))
    @@ ("6" :> Node(K_CheckpointLoaderSimple, <<>>, "ckpt_name" :> StrV(v_old)))

RequestTemplates == {
    PrunableGraph,
    [PrunableGraph EXCEPT !["3"].inputs = SetItem(@, "model", Ref("9", 0))],
    ("1" :> PositivePool[1]) @@ ("2" :> NegativePool[1]) @@ ("3" :> SamplerPool[1]) }

VideoTemplates == {
    ("2" :> Node(K_LoadImage, <<>>, "image" :> StrV(v_old)))
    @@ ("17" :> Node(K_CLIPTextEncode, <<>>, "text" :> StrV(v_old)))
    @@ ("10" :> Node(K_CLIPTextEncode, <<>>, "text" :> StrV(v_old)))
    @@ ("6" :> Node(K_DW_seed, <<>>, "seed" :> IntV(7)))
    @@ ("29" :> Node(K_Int, <<>>, "value" :> IntV(5)))
    @@ ("15" :> Node(K_DW_LoRAStackApplySimple, <<>>,
                     ("lora_1_name" :> StrV(v_old)) @@ ("lora_3_name" :> StrV(v_old)) @@ ("lora_3_strength" :> FloatV(5))))
    @@ ("27" :> Node(K_LoraLoaderModelOnly, <<>>, "lora_name" :> StrV(v_old))),
    ("36" :> Node(K_LoadImage, <<>>, "image" :> StrV(v_old)))
    @@ ("54" :> Node(K_CLIPTextEncode, <<>>, "text" :> StrV(v_old)))
    @@ ("55" :> Node(K_CLIPTextEncode, <<>>, "text" :> Ref("54", 0)))
    @@ ("52" :> Node(K_VAELoader, <<>>, "unet_name" :> StrV(v_old)))
    @@ ("51" :> Node(K_DW_LoRAStackApplySimple, <<>>, "lora_2_name" :> StrV(v_old)))
    @@ ("56" :> Node(K_DW_LoRAStackApplySimple, <<>>, "lora_6_name" :> StrV(v_old)))
    @@ ("9" :> Node(K_DW_Img2Vid, <<>>, "image" :> Ref("36", 0))) }

VideoParamCases == <<
    ("prompt" :> StrV(v_cat)) @@ ("negative_prompt" :> StrV(v_blurry)) @@ ("duration" :> IntV(5))
        @@ ("fps" :> IntV(16)) @@ ("quality" :> IntV(480)) @@ ("seed" :> NoneV)
        @@ ("lora_names_high" :> ListV(<<StrV(v_cat), StrV(v_dog)>>)) @@ ("lora_strengths_high" :> ListV(<<FloatV(8)>>)),
    ("prompt" :> StrV(v_dog)) @@ ("negative_prompt" :> StrV(v_tags)) @@ ("duration" :> StrV(v_640))
        @@ ("fps" :> IntV(16)) @@ ("quality" :> IntV(480)) @@ ("seed" :> IntV(42)) @@ ("unet_high" :> StrV(v_ckpt))
        @@ ("lora_names_high" :> ListV(<<>>)) @@ ("lora_strengths_high" :> ListV(<<>>))
        @@ ("lora_names_low" :> ListV(<<StrV(v_cat), StrV(v_dog), StrV(v_tags), StrV(v_ckpt), StrV(v_abc), StrV(v_img), StrV(v_blurry)>>))
        @@ ("lora_strengths_low" :> ListV(<<IntV(1), StrV(v_abc), FloatV(8), FloatV(8), FloatV(8), FloatV(8), FloatV(8)>>)),
    ("prompt" :> StrV(v_dog)) @@ ("negative_prompt" :> StrV(<<>>)) @@ ("duration" :> StrV(v_abc))
        @@ ("fps" :> IntV(16)) @@ ("quality" :> IntV(480)) @@ ("seed" :> StrV(v_minus1)) >>

TargetClassifications == {"", "Gen_Normal", "Gen_UpScaler"}
UploadedNames == {NoneV, StrV(v_img)}
Randints == {0, 2147483647}

\* services.py lines 779-844 for a caller whose allowed_types end with one of
\* targets; "" stands for no allowed_types
PruneFor(r, targets) ==
    /\ req[r].pc = "injected"
    /\ \E target \in targets :
          LET o == req[r].prompt_workflow_base
              res == prune(objects[o], target)
              stages == map_workflow_stages(objects[o])
          IN  IF target = ""
              THEN /\ req' = [req EXCEPT ![r].pc = "ready", ![r].updated_workflow = o]
                   /\ UNCHANGED objects
              ELSE /\ req' = [req EXCEPT ![r].pc = IF res.raised THEN "raised" ELSE "ready",
                                         ![r].target_classification = target,
                                         ![r].stage_map = IF stages.raised THEN EmptyDict ELSE stages.stage_map,
                                         ![r].pruned = res.pruned,
                                         ![r].updated_workflow = IF res.pruned THEN new_dict(r) ELSE o]
                   /\ objects' = IF res.pruned
                                 THEN [objects EXCEPT ![o] = res.working, ![new_dict(r)] = res.updated_workflow]
                                 ELSE [objects EXCEPT ![o] = res.working]
    /\ UNCHANGED <<workflow_file, sel, orch, fd>>

Prune(r) == PruneFor(r, TargetClassifications)

\* video_services.py lines 418-423: read_json builds a new dict on every call
ReadJson(r) ==
    /\ req[r].pc = "start"
    /\ req[r].kind = "video"
    /\ objects' = [objects EXCEPT ![read_workflow_file(r)] = workflow_file]
    /\ req' = [req EXCEPT ![r].pc = "read", ![r].prompt_workflow_base = read_workflow_file(r)]
    /\ UNCHANGED <<workflow_file, sel, orch, fd>>

\* video_services.py line 451: update_video_workflow copies the graph it is
\* given (line 223) and writes into the copy
UpdateVideo(r) ==
    /\ req[r].pc = "read"
    /\ \E c \in DOMAIN VideoParamCases : \E name \in UploadedNames : \E randint \in Randints :
          LET o == req[r].prompt_workflow_base
              res == update_video_workflow(objects[o], VideoParamCases[c], name, randint)
          IN  /\ objects' = [objects EXCEPT ![new_dict(r)] = res.wf]
              /\ req' = [req EXCEPT ![r].pc = IF res.raised THEN "raised" ELSE "ready",
                                    ![r].new_values = VideoParamCases[c],
                                    ![r].uploaded_image_name = name,
                                    ![r].randint = randint,
                                    ![r].updated_workflow = new_dict(r)]
    /\ UNCHANGED <<workflow_file, sel, orch, fd>>

InitRequests ==
    /\ \E kind \in {"image", "video"} :
          /\ workflow_file \in (IF kind = "image" THEN RequestTemplates ELSE VideoTemplates)
          /\ req = [r \in Requests |-> [NewRequest EXCEPT !.kind = kind]]
    /\ objects = [o \in 1..4 |-> NoGraph]
    /\ sel = SelIdle
    /\ orch = OrchIdle
    /\ fd = FdIdle

PruneStep == \E r \in DOMAIN req : Prune(r)
ReadJsonStep == \E r \in DOMAIN req : ReadJson(r)
UpdateVideoStep == \E r \in DOMAIN req : UpdateVideo(r)

NextRequests == ReadWorkflowStep \/ InjectStep \/ PruneStep \/ ReadJsonStep \/ UpdateVideoStep

\* two requests of the same kind, interleaved, up to the graph each submits
SpecRequests == InitRequests /\ [][NextRequests]_vars

\* the graph request r submits, computed from the template and from the
\* parameters of r alone
OwnGraph(r) ==
    IF req[r].kind = "video"
    THEN update_video_workflow(workflow_file, req[r].new_values, req[r].uploaded_image_name, req[r].randint).wf
    ELSE LET injected == update_workflow(workflow_file, req[r].new_values, req[r].lora_names, req[r].lora_strengths).wf
         IN  IF req[r].target_classification = "" THEN injected
             ELSE prune(injected, req[r].target_classification).updated_workflow

(* C5: a request never alters the template: the graph a request has just
   loaded is the template whatever the other request has injected or pruned
   meanwhile, the graph a video request was given is still the template
   after its copy was written, and the graph a request submits is the one
   its own parameters give on the template. *)
C5_TemplateNotAltered ==
    \A r \in DOMAIN req :
        /\ req[r].pc \in {"loaded", "read"} => objects[req[r].prompt_workflow_base] = workflow_file
        /\ (req[r].pc = "ready" /\ req[r].kind = "video") => objects[req[r].prompt_workflow_base] = workflow_file
        /\ req[r].pc = "ready" => objects[req[r].updated_workflow] = OwnGraph(r)

C5_Witness ==
    /\ req[1].pc = "ready" /\ req[2].pc = "ready"
    /\ req[1].pruned /\ req[2].pruned
    /\ req[1].new_values # req[2].new_values
    /\ objects[req[1].updated_workflow] # objects[req[2].updated_workflow]
    /\ objects[req[1].updated_workflow] # workflow_file


(***************************************************************************)
(* One request on a graph with a LoRA stack                                *)
(***************************************************************************)
has_lora_stack(wf) == \E id \in DOMAIN wf : wf[id].class_type = K_DW_LoRAStackApplySimple

InitLoras ==
    /\ \E kind \in {"image", "video"} :
          /\ workflow_file \in (IF kind = "image" THEN {t \in Templates : has_lora_stack(t)} ELSE VideoTemplates)
          /\ req = [r \in {1} |-> [NewRequest EXCEPT !.kind = kind]]
    /\ objects = [o \in 1..3 |-> NoGraph]
    /\ sel = SelIdle
    /\ orch = OrchIdle
    /\ fd = FdIdle

NextLoras == ReadWorkflowStep \/ InjectStep \/ ReadJsonStep \/ UpdateVideoStep

\* update_workflow and update_video_workflow applied to every template with
\* a LoRA stack under every parameter case
SpecLoras == InitLoras /\ [][NextLoras]_vars

\* the names the six slots of a stack node hold after the list L was written
SlotsFollow(inputs, L) ==
    /\ \A i \in 1..LoraSlots :
          /\ lora_name_key[i] \in DOMAIN inputs
          /\ inputs[lora_name_key[i]] = IF i <= Len(L) THEN L[i] ELSE StrV(s_None)
    /\ \A j \in (LoraSlots + 1)..Len(L) : \A i \in 1..LoraSlots : inputs[lora_name_key[i]] # L[j]

\* the list a video request passes under key, when it passes the list and
\* its strengths
HasList(r, names_key, strengths_key) ==
    req[r].kind = "video" /\ req[r].pc = "ready"
    /\ names_key \in DOMAIN req[r].new_values /\ strengths_key \in DOMAIN req[r].new_values

(* C12: after the injection with a LoRA list L, slot i of every LoRA stack
   node holds L[i] for i up to min(len(L), 6) and "None" for the other slots,
   whatever the template held; a list of more than six entries is written
   without an error and its entries from the seventh on are in no slot.  For
   a video graph the stack nodes are those of the high list (15, 51) and of
   the low list (16, 56). *)
C12_SlotsFollowList ==
    \A r \in DOMAIN req :
        /\ (Len(req[r].lora_names) > LoraSlots /\ req[r].pc \in {"injected", "raised"}) => Injected(r)
        /\ Injected(r) =>
              \A id \in DOMAIN After(r) :
                  After(r)[id].class_type = K_DW_LoRAStackApplySimple =>
                      SlotsFollow(After(r)[id].inputs, req[r].lora_names)
        /\ HasList(r, "lora_names_high", "lora_strengths_high") =>
              \A id \in {"15", "51"} \cap DOMAIN objects[req[r].updated_workflow] :
                  SlotsFollow(objects[req[r].updated_workflow][id].inputs, req[r].new_values["lora_names_high"].items)
        /\ HasList(r, "lora_names_low", "lora_strengths_low") =>
              \A id \in {"16", "56"} \cap DOMAIN objects[req[r].updated_workflow] :
                  SlotsFollow(objects[req[r].updated_workflow][id].inputs, req[r].new_values["lora_names_low"].items)

C12_Witness ==
    \E r \in DOMAIN req :
        /\ Injected(r)
        /\ Len(req[r].lora_names) > LoraSlots
        /\ \E id \in DOMAIN After(r) :
              /\ After(r)[id].class_type = K_DW_LoRAStackApplySimple
              /\ "lora_2_name" \in DOMAIN req[r].before[id].inputs
              /\ req[r].before[id].inputs["lora_2_name"] = StrV(v_old)
              /\ After(r)[id].inputs["lora_6_name"] = req[r].lora_names[LoraSlots]

\* the numeric parameters of a request that int() or float() refuses
FailedCoercions(r) ==
    {k \in {"seed", "width", "height"} \cap DOMAIN req[r].new_values : ~int(req[r].new_values[k]).ok}
    \cup {k \in {"upscale_by"} \cap DOMAIN req[r].new_values : ~float(req[r].new_values[k]).ok}

\* the field of node id that takes parameter key holds the coerced value,
\* or what it held before the injection when the coercion fails
IntApplied(r, id, field, key) ==
    key \in DOMAIN req[r].new_values =>
        After(r)[id].inputs[field] = IF int(req[r].new_values[key]).ok
                                     THEN IntV(int(req[r].new_values[key]).v)
                                     ELSE req[r].before[id].inputs[field]

FloatApplied(r, id, field, key) ==
    key \in DOMAIN req[r].new_values =>
        After(r)[id].inputs[field] = IF float(req[r].new_values[key]).ok
                                     THEN FloatV(float(req[r].new_values[key]).v)
                                     ELSE req[r].before[id].inputs[field]

(* C13: when a numeric parameter (seed, width, height, upscale factor) cannot
   be coerced, update_workflow raises nothing, the field the parameter
   targets keeps the value it held before the injection, and every other
   numeric parameter of the call is applied to its field. *)
C13_FailedCoercionIsLocal ==
    \A r \in DOMAIN req :
        /\ (FailedCoercions(r) # {} /\ req[r].pc \in {"injected", "raised"}) => Injected(r)
        /\ (FailedCoercions(r) # {} /\ Injected(r)) =>
              \A id \in DOMAIN req[r].before :
                  LET class_type == req[r].before[id].class_type
                  IN  /\ class_type = K_DW_resolution =>
                            /\ IntApplied(r, id, "WIDTH", "width")
                            /\ IntApplied(r, id, "HEIGHT", "height")
                            /\ FloatApplied(r, id, "UPSCALER", "upscale_by")
                      /\ class_type = K_EmptyLatentImage =>
                            /\ IntApplied(r, id, "width", "width")
                            /\ IntApplied(r, id, "height", "height")
                      /\ class_type = K_DW_seed => IntApplied(r, id, "seed", "seed")

(* C14: update_workflow completes without raising whatever keys the
   parameter set lacks (a width without a height among them) and whatever
   target nodes the graph lacks. *)
C14_AbsentKeysAreSkipped ==
    \A r \in DOMAIN req :
        (req[r].kind = "image" /\ req[r].pc \in {"injected", "raised"}) => Injected(r)

(* C15: after update_workflow every DW_Ultimate_Blacklist_Filter node has a
   WHITELIST input: the one the template supplied, unchanged, or else a
   Reference to the placeholder text node, which is in the graph and holds
   the empty text. *)
C15_WhitelistConnected ==
    \A r \in DOMAIN req :
        Injected(r) =>
            \A id \in DOMAIN req[r].before :
                After(r)[id].class_type = K_DW_Ultimate_Blacklist_Filter =>
                    /\ "WHITELIST" \in DOMAIN After(r)[id].inputs
                    /\ IF "WHITELIST" \in DOMAIN req[r].before[id].inputs
                       THEN After(r)[id].inputs["WHITELIST"] = req[r].before[id].inputs["WHITELIST"]
                       ELSE /\ After(r)[id].inputs["WHITELIST"] = Ref(dummy_whitelist_id, 0)
                            /\ dummy_whitelist_id \in DOMAIN After(r)
                            /\ After(r)[dummy_whitelist_id].class_type = K_DW_Text
                            /\ After(r)[dummy_whitelist_id].inputs = [x \in {"text"} |-> StrV(<<>>)]

C15_Witness ==
    \E r \in DOMAIN req :
        /\ Injected(r)
        /\ "prompt" \in DOMAIN req[r].new_values
        /\ \E id \in DOMAIN req[r].before :
              /\ req[r].before[id].class_type = K_DW_Ultimate_Blacklist_Filter
              /\ "WHITELIST" \notin DOMAIN req[r].before[id].inputs
              /\ After(r)[id].inputs["WHITELIST"] = Ref(dummy_whitelist_id, 0)

(***************************************************************************)
(* One request on a graph of chained stages                                *)
(***************************************************************************)
K_DW_KsamplerAdvanced == <<"D", "W", "_", "K", "s", "a", "m", "p", "l", "e", "r", "A", "d", "v", "a", "n", "c", "e", "d">>
K_DW_SAM3Segmentation == <<"D", "W", "_", "S", "A", "M", "3", "S", "e", "g", "m", "e", "n", "t", "a", "t", "i", "o", "n">>
K_ImageResize == <<"I", "m", "a", "g", "e", "R", "e", "s", "i", "z", "e">>
v_face == <<"f", "a", "c", "e">>
v_eyes == <<"b", "o", "t", "h", " ", "e", "y", "e", "s">>
t_final_image == <<"F", "i", "n", "a", "l", "_", "I", "m", "a", "g", "e">>
t_promp_character == <<"P", "r", "o", "m", "p", "_", "C", "h", "a", "r", "a", "c", "t", "e", "r">>

\* the sampler of each stage in the chained graphs below
StageOrder == <<"Gen_Normal", "Gen_UpScaler", "Gen_FaceDetailer", "Gen_EyeDetailer">>
ChainSampler == [Gen_Normal |-> "3", Gen_UpScaler |-> "5", Gen_FaceDetailer |-> "7", Gen_EyeDetailer |-> "9"]

\* normal -> resize -> upscale -> face detail -> eye detail -> tagger and
\* filter -> final output; the samplers give their image on slot 5
ChainGraph ==
    ("1" :> Node(K_DW_Text, T_PROMP_USUARIO, "text" :> StrV(v_old)))
    @@ ("2" :> Node(K_DW_Text, T_PROMP_DETAILERS, "text" :> StrV(v_old)))
    @@ ("3" :> Node(K_DW_KsamplerAdvanced, <<>>, ("positive" :> Ref("1", 0)) @@ ("seed" :> IntV(7))))
    @@ ("4" :> Node(K_ImageResize, <<>>, "image" :> Ref("3", 5)))
    @@ ("5" :> Node(K_DW_KsamplerAdvanced, <<>>, ("positive" :> Ref("1", 0)) @@ ("image" :> Ref("4", 0))))
    @@ ("6" :> Node(K_DW_SAM3Segmentation, <<>>, ("prompt" :> StrV(v_face)) @@ ("image" :> Ref("5", 5))))
    @@ ("7" :> Node(K_DW_KsamplerAdvanced, <<>>,
                    ("positive" :> Ref("2", 0)) @@ ("image" :> Ref("5", 5)) @@ ("mask" :> Ref("6", 0))))
    @@ ("8" :> Node(K_DW_SAM3Segmentation, <<>>, ("prompt" :> StrV(v_eyes)) @@ ("image" :> Ref("7", 5))))
    @@ ("9" :> Node(K_DW_KsamplerAdvanced, <<>>,
                    ("positive" :> Ref("2", 0)) @@ ("image" :> Ref("7", 5)) @@ ("mask" :> Ref("8", 0))))
    @@ ("10" :> Node(K_WD14Tagger, <<>>, "image" :> Ref("9", 5)))
    @@ ("11" :> Node(K_DW_Ultimate_Blacklist_Filter, <<>>,
                     ("image" :> Ref("9", 5)) @@ ("INPUT_STRING" :> Ref("10", 0)) @@ ("BLACK_LIST" :> Ref("12", 0))))
    @@ ("12" :> Node(K_DW_Text, T_BLACK_LIST_TAGS, "text" :> StrV(v_old)))
    @@ ("13" :> Node(K_SaveImage, T_FINAL_IMAGE, "images" :> Ref("11", 0)))

\* the chain without a tagger: node 10 is a text node nothing refers to
ChainNoTagger ==
    [ChainGraph EXCEPT !["10"] = Node(K_DW_Text, t_promp_character, "text" :> StrV(v_old)),
                       !["11"].inputs = ("image" :> Ref("9", 5)) @@ ("BLACK_LIST" :> Ref("12", 0))]

\* the chain with the title of the final output in mixed case
ChainMixedCase == [ChainGraph EXCEPT !["13"].title = t_final_image]

ChainTemplates == {ChainGraph, ChainNoTagger, ChainMixedCase}

\* two face detailers, the first of them fed from the resize node
TwoFaceGraph ==
    [ChainGraph EXCEPT !["8"].inputs = ("prompt" :> StrV(v_face)) @@ ("image" :> Ref("7", 5)),
                       !["7"].inputs = ("positive" :> Ref("2", 0)) @@ ("image" :> Ref("4", 0)) @@ ("mask" :> Ref("6", 0))]

\* the chain without a tagger in which the text of PROMP_DETAILERS is wired
\* from node 10, a text node without title
ChainWiredPrompt ==
    [ChainNoTagger EXCEPT !["10"] = Node(K_DW_Text, <<>>, "text" :> StrV(v_old)),
                          !["2"].inputs = "text" :> Ref("10", 0)]

StageTemplates == ChainTemplates \cup {TwoFaceGraph, ChainWiredPrompt}

StageTargets == {""} \cup {StageOrder[i] : i \in DOMAIN StageOrder}

InitStages ==
    /\ workflow_file \in StageTemplates
    /\ req = [r \in {1} |-> NewRequest]
    /\ objects = [o \in 1..3 |-> NoGraph]
    /\ sel = SelIdle
    /\ orch = OrchIdle
    /\ fd = FdIdle

PruneStageStep == \E r \in DOMAIN req : PruneFor(r, StageTargets)

NextStages == ReadWorkflowStep \/ InjectStep \/ PruneStageStep

\* one request from the template to the graph it submits, for every stage a
\* caller can ask for
SpecStages == InitStages /\ [][NextStages]_vars

\* the request has passed lines 779-844 with a target stage
Mapped(r) == req[r].pc = "ready" /\ req[r].target_classification # ""

\* the graph the request had when the stages were mapped: the rewiring
\* changes no class_type and no mask
Working(r) == objects[req[r].prompt_workflow_base]

(* C16: a sampler the mask rule has classified as eye or face detailer is
   not classified again by the upscale/normal rule, also when several
   samplers match the same detailer stage. *)
C16_MaskMatchIsFinal ==
    \A r \in DOMAIN req :
        Mapped(r) =>
            \A id \in DOMAIN Working(r) :
                (Contains(lower(Working(r)[id].class_type), s_sampler)
                 /\ mask_stage(Working(r), id) \in {"Gen_EyeDetailer", "Gen_FaceDetailer"}) =>
                    \A stage \in {"Gen_UpScaler", "Gen_Normal"} \cap DOMAIN req[r].stage_map :
                        req[r].stage_map[stage] # id

\* the position of a stage in the chain
StageIndex(stage) == CHOOSE i \in DOMAIN StageOrder : StageOrder[i] = stage

(* C17: pruning a chained graph for target stage s leaves the filter's image
   input, and the tagger's when a tagger feeds the filter, referring to the
   sampler of s, and the pruned graph holds the sampler of s and no sampler
   of a later stage. *)
C17_PrunedToTargetStage ==
    \A r \in DOMAIN req :
        (Mapped(r) /\ workflow_file \in ChainTemplates) =>
            LET pruned == objects[req[r].updated_workflow]
                target == ChainSampler[req[r].target_classification]
            IN  /\ req[r].pruned
                /\ pruned["11"].inputs["image"] = Ref(target, 5)
                /\ "INPUT_STRING" \in DOMAIN pruned["11"].inputs =>
                      pruned[pruned["11"].inputs["INPUT_STRING"].id].inputs["image"] = Ref(target, 5)
                /\ target \in DOMAIN pruned
                /\ \A i \in DOMAIN StageOrder :
                      i > StageIndex(req[r].target_classification) => ChainSampler[StageOrder[i]] \notin DOMAIN pruned

C17_Witness ==
    \E r \in DOMAIN req :
        /\ Mapped(r) /\ req[r].pruned
        /\ workflow_file = ChainGraph
        /\ req[r].target_classification = "Gen_UpScaler"
        /\ "prompt" \in DOMAIN req[r].new_values
        /\ DOMAIN objects[req[r].updated_workflow] \cap {"3", "5", "7", "9"} = {"3", "5"}

(* C18: every node of the injected graph titled PROMP_CHARACTER,
   PROMP_USUARIO, PROMP_DETAILERS, NEGATIVE PROMP or BLACK_LIST_TAGS is in
   the pruned graph with the inputs the injection gave it, whether the final
   output depends on it or not. *)
C18_PromptNodesKept ==
    \A r \in DOMAIN req :
        Mapped(r) =>
            \A id \in DOMAIN Working(r) :
                upper(Working(r)[id].title) \in titles_to_keep =>
                    /\ id \in DOMAIN objects[req[r].updated_workflow]
                    /\ objects[req[r].updated_workflow][id] = Working(r)[id]
                    /\ Working(r)[id] =
                          update_workflow(workflow_file, req[r].new_values, req[r].lora_names, req[r].lora_strengths).wf[id]

C18_Witness ==
    \E r \in DOMAIN req :
        /\ Mapped(r) /\ req[r].pruned
        /\ req[r].target_classification = "Gen_Normal"
        /\ "promp_detailers" \in DOMAIN req[r].new_values
        /\ "2" \notin find_dependencies(objects[req[r].updated_workflow], "13")
        /\ objects[req[r].updated_workflow]["2"].inputs["text"] = req[r].new_values["promp_detailers"]

(***************************************************************************)
(* The artifacts a call of the orchestrator returns                        *)
(***************************************************************************)

\* the stage the title of the producing node names, by the keywords of the
\* specification: face or detail, upscale, normal or base
s_detail == <<"d", "e", "t", "a", "i", "l">>
s_upscale == <<"u", "p", "s", "c", "a", "l", "e">>

title_stage(title) ==
    IF Contains(lower(title), s_face) \/ Contains(lower(title), s_detail) THEN "Gen_FaceDetailer"
    ELSE IF Contains(lower(title), s_upscale) THEN "Gen_UpScaler"
    ELSE "Gen_Normal"

\* the stages the caller allows; a caller that names none allows them all
Allowed(stage) == orch.allowed_types = <<>> \/ \E i \in DOMAIN orch.allowed_types : orch.allowed_types[i] = stage

\* the files of the manifest whose producing node is of an allowed stage
AllowedArtifacts ==
    {[node |-> n, image |-> i] : n \in DOMAIN orch.manifest, i \in 1..MaxImages} \cap
    {a \in [node : DOMAIN orch.manifest, image : 1..MaxImages] :
        a.image <= orch.manifest[a.node].images /\ Allowed(title_stage(orch.manifest[a.node].title))}

(* C11: the image call does not return normally after a failure: when the
   history lists no output for the allowed stages, or a download has failed,
   the call raises. *)
C11_FailuresAreRaised ==
    (orch.variant = "image" /\ orch.pc = "done" /\ orch.left_by # ""
     /\ (orch.history = "no_outputs" \/ (orch.history = "outputs" /\ AllowedArtifacts = {}) \/ orch.failed_download))
        => orch.outcome = "raised"

(* C19: when the job has completed and no download has failed, every file
   the manifest lists under a node of an allowed stage is part of the result
   the image call returns. *)
C19_EveryArtifactDownloaded ==
    (orch.variant = "image" /\ orch.left_by = "executing" /\ orch.outcome = "returned"
     /\ orch.history = "outputs" /\ ~orch.failed_download) =>
        \A a \in AllowedArtifacts :
            \E k \in DOMAIN orch.images_data :
                orch.images_data[k].node = a.node /\ orch.images_data[k].image = a.image

(* C20: the classification returned with an artifact is the stage its
   producing node names, not the stage the caller asked for. *)
C20_TagFromProducingNode ==
    \A k \in DOMAIN orch.images_data :
        orch.images_data[k].classification = title_stage(orch.manifest[orch.images_data[k].node].title)


(***************************************************************************)
(* The backend interactions of a call                                      *)
(***************************************************************************)
Count(log, x) == Cardinality({i \in DOMAIN log : log[i] = x})

(* C22: when the backend rejects the submitted graph the call raises right
   there: no stream event is consumed, no manifest and no artifact is
   fetched, and the graph is not submitted a second time. *)
C22_RejectedJobNeverStreams ==
    orch.submit = "rejected" =>
        /\ orch.pc = "done" /\ orch.outcome = "raised"
        /\ orch.log = <<"connect", "submit">>
        /\ orch.received = 0 /\ orch.history = "" /\ orch.images_data = <<>>

C22_Witness ==
    /\ orch.submit = "rejected" /\ orch.pc = "done"
    /\ Count(orch.log, "submit") = 1

Rank(interaction) ==
    CASE interaction = "connect" -> 1
      [] interaction = "submit" -> 2
      [] interaction = "recv" -> 3
      [] interaction = "history" -> 4
      [] interaction = "download" -> 5

(* C28: a call opens the event channel, submits, consumes events, fetches
   the manifest and fetches the artifacts, in that order: the channel is open
   when the graph is submitted, and the manifest is not fetched while the
   streaming loop is running. *)
C28_InteractionsInOrder ==
    /\ \A i, j \in DOMAIN orch.log : i < j => Rank(orch.log[i]) <= Rank(orch.log[j])
    /\ Count(orch.log, "connect") <= 1 /\ Count(orch.log, "submit") <= 1
    /\ Count(orch.log, "history") <= 1
    /\ Count(orch.log, "submit") > 0 => orch.log[1] = "connect"
    /\ orch.pc = "streaming" => Count(orch.log, "history") = 0

C28_Witness ==
    /\ orch.pc = "done" /\ orch.outcome = "returned"
    /\ \A x \in {"connect", "submit", "recv", "history", "download"} : Count(orch.log, x) > 0

(***************************************************************************)
(* The calls on a stream that ends: every stream delivers an                *)
(* execution_error or the completion of the job, or is closed               *)
(***************************************************************************)
\* the stream has delivered a terminal event of the job
TerminalDelivered == orch.terminal

\* the backend sends on, or closes, until a terminal event has been sent
StreamGoesOn == (Recv \/ ConnectionClosed) /\ ~TerminalDelivered

\* the HTTP calls run under a timeout and return or raise
HttpCalls == Connect \/ QueuePrompt \/ GetHistory \/ Download

SpecOrchLive ==
    InitOrch /\ [][NextOrch]_vars /\ WF_vars(HttpCalls) /\ WF_vars(StreamGoesOn)

(* C26: on a stream that delivers a terminal event or is closed, every
   acknowledged call leaves the streaming loop and ends, returning or
   raising. *)
C26_AcknowledgedCallEnds ==
    (orch.submit = "acknowledged") ~> (orch.pc = "done")

\* the image call at recv() after the execution_error of its job
C26_WaitsAfterError ==
    /\ orch.variant = "image" /\ orch.pc = "streaming"
    /\ terminal_event(orch.last, orch.prompt_id) /\ orch.last.type = "execution_error"


(***************************************************************************)
(* The role sets and the text fields update_workflow writes                *)
(***************************************************************************)
\* S with every node that a node of S references, and so on
RECURSIVE Upstream(_, _)
Upstream(g, S) ==
    LET T == S \cup UNION {References(g, id) : id \in S}
    IN  IF T = S THEN S ELSE Upstream(g, T)

\* the nodes with a text field among those upstream of the role input of a
\* sampler
StructuralRole(g, role) ==
    LET samplers == {id \in DOMAIN g : /\ Contains(lower(g[id].class_type), s_sampler)
                                       /\ role \in DOMAIN g[id].inputs
                                       /\ IsList(g[id].inputs[role])}
        reached == Upstream(g, {dependency_id(g[id].inputs[role]) : id \in samplers})
    IN  {id \in reached \cap DOMAIN g : \E i \in DOMAIN candidates : candidates[i] \in DOMAIN g[id].inputs}

NoTitleHas(g, word) == \A id \in DOMAIN g : ~Contains(lower(g[id].title), word)

(* C23: when no title of the graph contains "positive" ("negative"), the
   positive (negative) role set is the set of nodes with a text field
   upstream of the positive (negative) input of the samplers, and the prompt
   (negative prompt) is injected into those nodes. *)
C23_StructuralRoleSet ==
    \A r \in DOMAIN req : Injected(r) =>
        LET g == req[r].before IN
        /\ NoTitleHas(g, s_positive) =>
              /\ req[r].positive_nodes = StructuralRole(g, "positive")
              /\ \A id \in StructuralRole(g, "positive") :
                    (g[id].title = <<>> /\ "prompt" \in DOMAIN req[r].new_values)
                        => After(r)[id] = update_text(g[id], req[r].new_values["prompt"])
        /\ NoTitleHas(g, s_negative) =>
              /\ req[r].negative_nodes = StructuralRole(g, "negative")
              /\ \A id \in StructuralRole(g, "negative") :
                    (g[id].title = <<>> /\ "negative_prompt" \in DOMAIN req[r].new_values)
                        => After(r)[id] = update_text(g[id], req[r].new_values["negative_prompt"])


\* the candidate fields a node has, in the order of the priority list
PresentCandidates(node) == SelectSeq(candidates, LAMBDA k : k \in DOMAIN node.inputs)

(* C24: update_text changes at most one input field of a node: the first
   field of text, text_g, text_l, prompt, value that the node has, and only
   when that field holds a literal; when it holds a Reference no input field
   of the node is written. *)
C24_FirstPresentFieldOnly ==
    \A r \in DOMAIN req : Injected(r) =>
        \A id \in req[r].positive_nodes \cup req[r].negative_nodes :
            LET node == req[r].before[id]
                present == PresentCandidates(node)
            IN  present # <<>> =>
                    \A f \in DOMAIN node.inputs :
                        (f # Head(present) \/ IsList(node.inputs[Head(present)]))
                            => After(r)[id].inputs[f] = node.inputs[f]


(***************************************************************************)
(* The while loop of find_dependencies, one iteration at a time            *)
(***************************************************************************)
\* a loop that scans a node each time it is popped
never_seen(current_id, nodes_to_keep) == FALSE

\* services.py line 484: the node has been popped before
seen(current_id, nodes_to_keep) == current_id \in nodes_to_keep

\* the edges of SpecDeps and one that makes node 2 a dependency of the
\* last node as well as of its predecessor
LoopEdges(n) == ExtraEdges(n) \cup {[from |-> node_id_of[n], field |-> "also", value |-> Ref("2", 0)]}

InitDepLoop ==
    /\ workflow_file = NoGraph
    /\ objects = [o \in {1} |-> NoGraph]
    /\ req = [r \in {1} |-> NewRequest]
    /\ sel = SelIdle
    /\ orch = OrchIdle
    /\ \E extra \in SUBSET LoopEdges(NumDepNodes) : \E chain \in SUBSET ChainEdges(NumDepNodes) :
       \E start \in {node_id_of[i] : i \in 1..NumDepNodes} :
          fd = [pc |-> "while", workflow |-> DepGraph(NumDepNodes, chain \cup extra),
                start_node_id |-> start, nodes_to_keep |-> {}, queue |-> <<start>>,
                iterations |-> 0, expanded |-> <<>>]

\* services.py lines 482-493: one iteration of the while loop; expanded
\* lists the nodes whose inputs line 488 has gone through
Iteration ==
    /\ fd.pc = "while"
    /\ fd.queue # <<>>
    /\ LET current_id == Head(fd.queue)
       IN  IF seen(current_id, fd.nodes_to_keep)
           THEN fd' = [fd EXCEPT !.queue = Tail(@), !.iterations = @ + 1]
           ELSE IF current_id \in DOMAIN fd.workflow
           THEN fd' = [fd EXCEPT !.queue = Tail(@) \o dependencies(fd.workflow[current_id], fd.nodes_to_keep \cup {current_id}),
                                 !.nodes_to_keep = @ \cup {current_id},
                                 !.expanded = Append(@, current_id),
                                 !.iterations = @ + 1]
           ELSE fd' = [fd EXCEPT !.queue = Tail(@),
                                 !.nodes_to_keep = @ \cup {current_id},
                                 !.iterations = @ + 1]
    /\ UNCHANGED <<workflow_file, objects, req, sel, orch>>

\* services.py lines 482 and 494: the queue is empty
Return ==
    /\ fd.pc = "while"
    /\ fd.queue = <<>>
    /\ fd' = [fd EXCEPT !.pc = "returned"]
    /\ UNCHANGED <<workflow_file, objects, req, sel, orch>>

NextDepLoop == Iteration \/ Return

\* the loop on every graph of NumDepNodes nodes over the edges of SpecDeps
SpecDepLoop == InitDepLoop /\ [][NextDepLoop]_vars

\* the number of Reference inputs of the graph
ReferenceInputs(workflow) ==
    Cardinality(UNION {{<<id, k>> : k \in {f \in DOMAIN workflow[id].inputs : IsList(workflow[id].inputs[f])}} :
                       id \in DOMAIN workflow})

(* C25: find_dependencies terminates on every finite graph, with cycles and
   self references too, and goes through the inputs of each node at most
   once: the iterations done and those still queued never exceed one more
   than the Reference inputs of the graph, and no node is expanded twice. *)
C25_TerminatesEachNodeOnce ==
    fd.pc \in {"while", "returned"} =>
        /\ \A i, j \in DOMAIN fd.expanded : fd.expanded[i] = fd.expanded[j] => i = j
        /\ fd.iterations + Len(fd.queue) <= 1 + ReferenceInputs(fd.workflow)
        /\ fd.pc = "returned" =>
              /\ fd.queue = <<>>
              /\ fd.nodes_to_keep = find_dependencies(fd.workflow, fd.start_node_id)

\* the call from node 1 on a graph with the cycle 1 -> 4 -> 3 -> 2 -> 1 and
\* the self reference of node 2, in which node 2 is queued by node 3 and by
\* node 4 before it is popped
C25_Witness ==
    /\ fd.pc = "returned"
    /\ fd.start_node_id = "1"
    /\ References(fd.workflow, "1") = {"3", "4"}
    /\ References(fd.workflow, "2") = {"1", "2"}
    /\ References(fd.workflow, "3") = {"2"}
    /\ References(fd.workflow, "4") = {"1", "2", "3"}
    /\ Len(fd.expanded) = 4
    /\ fd.iterations = 5


(***************************************************************************)
(* The References of the pruned graph                                      *)
(***************************************************************************)
(* C27: the pruned graph is closed under References: every Reference of a
   retained node, also of a node retained for its title alone, names a node
   of the pruned graph, and every id of the pruned graph is an id of the
   graph before pruning. *)
C27_PrunedGraphClosed ==
    \A r \in DOMAIN req :
        (Mapped(r) /\ req[r].pruned) =>
            LET pruned == objects[req[r].updated_workflow]
            IN  /\ \A id \in DOMAIN pruned : References(pruned, id) \subseteq DOMAIN pruned
                /\ DOMAIN pruned \subseteq DOMAIN Working(r)


(***************************************************************************)
(* The seed of generate_image_from_character, services.py lines 758-761.   *)
(* A Python int has no width: it is held here as neg, hi, lo with the      *)
(* magnitude hi * 65536 + lo.                                              *)
(***************************************************************************)
Wide(neg, hi, lo) == [neg |-> neg, hi |-> hi, lo |-> lo]
WideOf(n) == IF n < 0 THEN Wide(TRUE, (0 - n) \div 65536, (0 - n) % 65536)
             ELSE Wide(FALSE, n \div 65536, n % 65536)
Narrow(a) == a.hi * 65536 + a.lo

\* the magnitude a.hi * 65536 + a.lo times ten plus the digit d
Shift10(a, d) == Wide(FALSE, a.hi * 10 + (a.lo * 10 + d) \div 65536, (a.lo * 10 + d) % 65536)

RECURSIVE WideDigits(_)
WideDigits(s) == IF s = <<>> THEN Wide(FALSE, 0, 0)
                 ELSE Shift10(WideDigits(SubSeq(s, 1, Len(s) - 1)), IndexIn(s[Len(s)], DigitChars) - 1)

\* int(seed) of line 761 for a str or an int; ValueError is ok = FALSE
int_wide(x) ==
    IF x.kind = "int" THEN [ok |-> TRUE, v |-> WideOf(x.v)]
    ELSE IF x.kind = "str"
    THEN LET t == strip(x.v)
             signed == t # <<>> /\ t[1] \in {"-", "+"}
             body == IF signed THEN Tail(t) ELSE t
         IN  IF AllDigits(body)
             THEN [ok |-> TRUE, v |-> [WideDigits(body) EXCEPT !.neg = signed /\ t[1] = "-"]]
             ELSE [ok |-> FALSE, v |-> WideOf(0)]
    ELSE [ok |-> FALSE, v |-> WideOf(0)]

Less(a, b) == a.hi < b.hi \/ (a.hi = b.hi /\ a.lo < b.lo)
Minus(a, b) == IF a.lo >= b.lo THEN Wide(FALSE, a.hi - b.hi, a.lo - b.lo)
               ELSE Wide(FALSE, a.hi - b.hi - 1, a.lo + 65536 - b.lo)

\* the magnitude of a, less m as often as it goes
RECURSIVE magnitude_mod(_, _)
magnitude_mod(a, m) == IF Less(a, m) THEN Narrow(a) ELSE magnitude_mod(Minus(a, m), m)

\* a remainder with the sign of the dividend
truncated_mod(a, m) ==
    IF a.neg THEN 0 - magnitude_mod(a, WideOf(m)) ELSE magnitude_mod(a, WideOf(m))

\* line 761: the % of Python ints, which has the sign of the divisor
python_mod(a, m) ==
    LET r == magnitude_mod(a, WideOf(m))
    IN  IF a.neg /\ r # 0 THEN m - r ELSE r

v_space_minus1 == <<" ", "-", "1", " ">>
v_2147483647 == <<"2", "1", "4", "7", "4", "8", "3", "6", "4", "7">>
v_2147483648 == <<"2", "1", "4", "7", "4", "8", "3", "6", "4", "8">>
v_4294967301 == <<"4", "2", "9", "4", "9", "6", "7", "3", "0", "1">>
v_minus_4294967301 == <<"-">> \o v_4294967301
v_minus_7 == <<"-", "7">>
v_minus_01 == <<"-", "0", "1">>

\* the seed argument of the call: None, the text of a form field, an int
SeedArguments ==
    {NoneV, StrV(<<>>), StrV(v_minus1), StrV(v_space_minus1), IntV(0 - 1),
     IntV(0), IntV(7), IntV(0 - 7), IntV(2147483646), IntV(2147483647), IntV(0 - 2147483647),
     StrV(v_640), StrV(v_minus_7), StrV(v_minus_01), StrV(v_2147483647), StrV(v_2147483648),
     StrV(v_4294967301), StrV(v_minus_4294967301), StrV(v_abc)}

SeedRandints == {0, 1, 2147483646, 2147483647}

\* a graph with a sampler seed and one with a DW_seed node
SeedTemplates == {
    ("1" :> PositivePool[1]) @@ ("2" :> NegativePool[1]) @@ ("3" :> SamplerPool[1]),
    ("1" :> PositivePool[1]) @@ ("2" :> NegativePool[1]) @@ ("3" :> ExtraPool[7]) }

\* line 758: seed is None or str(seed).strip() in ["", "-1"]
seed_is_random(seed) ==
    \/ seed.kind = "none"
    \/ seed.kind = "str" /\ strip(seed.v) \in {<<>>, v_minus1}
    \/ seed.kind = "int" /\ seed.v = 0 - 1

seed_modulus == 2147483647

\* lines 758-761; randint is what random.randint(0, 2147483647) returns
final_seed(seed, randint) ==
    IF seed_is_random(seed) THEN [raised |-> FALSE, seed |-> IntV(randint)]
    ELSE IF ~int_wide(seed).ok THEN [raised |-> TRUE, seed |-> NoneV]
    ELSE [raised |-> FALSE, seed |-> IntV(python_mod(int_wide(seed).v, seed_modulus))]

InitSeed ==
    /\ workflow_file \in SeedTemplates
    /\ objects = [o \in {1} |-> NoGraph]
    /\ \E seed \in SeedArguments :
          req = [r \in {1} |-> [pc |-> "start", seed |-> seed, randint |-> 0, final_config |-> EmptyDict]]
    /\ sel = SelIdle
    /\ orch = OrchIdle
    /\ fd = FdIdle

\* services.py lines 752-761
FinalConfig(r) ==
    /\ req[r].pc = "start"
    /\ \E randint \in SeedRandints :
          LET res == final_seed(req[r].seed, randint)
          IN  req' = [req EXCEPT ![r].pc = IF res.raised THEN "raised" ELSE "configured",
                                 ![r].randint = IF seed_is_random(req[r].seed) THEN randint ELSE 0,
                                 ![r].final_config = IF res.raised THEN EmptyDict
                                                     ELSE ("prompt" :> StrV(v_cat)) @@ ("seed" :> res.seed)]
    /\ UNCHANGED <<workflow_file, objects, sel, orch, fd>>

\* services.py line 777: the copy of the template takes final_config
InjectSeed(r) ==
    /\ req[r].pc = "configured"
    /\ req' = [req EXCEPT ![r].pc = "injected"]
    /\ objects' = [objects EXCEPT ![1] = update_workflow(workflow_file, req[r].final_config, <<>>, <<>>).wf]
    /\ UNCHANGED <<workflow_file, sel, orch, fd>>

NextSeed == (\E r \in DOMAIN req : FinalConfig(r)) \/ (\E r \in DOMAIN req : InjectSeed(r))

\* the seed of one image call, from the argument to the graph
SpecSeed == InitSeed /\ [][NextSeed]_vars

\* what the larger texts of SeedArguments come to modulo 2147483647
ExpectedOfText ==
    (v_2147483647 :> 0) @@ (v_2147483648 :> 1) @@ (v_4294967301 :> 7) @@ (v_minus_4294967301 :> 2147483640)

(* C30: the seed the image call injects is an integer in 0..2147483647: a
   seed that is absent, empty or "-1" gives the random value, any other
   integer seed s gives s mod 2147483647, which is not negative. *)
C30_SeedInRange ==
    \A r \in DOMAIN req : req[r].pc \in {"configured", "injected"} =>
        LET seed == req[r].seed
            final == req[r].final_config["seed"]
        IN  /\ final.kind = "int" /\ final.v \in 0..2147483647
            /\ (seed \in {NoneV, StrV(<<>>), StrV(v_minus1), IntV(0 - 1)}) => final.v = req[r].randint
            /\ (seed.kind = "int" /\ seed.v # 0 - 1) => final.v = seed.v % 2147483647
            /\ (seed.kind = "str" /\ seed.v \in DOMAIN ExpectedOfText) => final.v = ExpectedOfText[seed.v]
            /\ seed = StrV(v_minus_7) => final.v = 2147483640
            /\ req[r].pc = "injected" => objects[1]["3"].inputs["seed"] = final

C30_Witness ==
    /\ req[1].pc = "injected"
    /\ req[1].seed = StrV(v_minus_4294967301)
    /\ objects[1]["3"].inputs["seed"] = IntV(2147483640)

=========================================================================
